---- MODULE Spec2Model ----
(***************************************************************************)
(* Nautilus TEE master: the resource store (memory_store.rs), the          *)
(* placement engine (scheduler.rs) and the reconciliation fabric           *)
(* (controller_manager.rs), modelled as state machines.                    *)
(*                                                                         *)
(* Conventions.  A Rust HashMap is a function whose DOMAIN is the set of   *)
(* keys present; a Vec / VecDeque is a sequence; Option<T> is the empty    *)
(* sequence (None) or a one-element sequence (Some).  Latencies and stamps *)
(* that no decision of the code reads (latency_us, created, modified,      *)
(* avg_latency) are left out.  Instants that the code does compare         *)
(* (dedup window, decision TTL) are read from the model clock `now`.       *)
(***************************************************************************)
EXTENDS Integers, Sequences, FiniteSets, TLC

None == << >>
Some(x) == << x >>
Unwrap(o) == o[1]

Min(a, b) == IF a <= b THEN a ELSE b
Max(a, b) == IF a >= b THEN a ELSE b
Abs(x) == IF x < 0 THEN -x ELSE x

Range(f) == {f[x] : x \in DOMAIN f}

\* HashMap::remove / Vec::retain helpers
MapRemove(m, k) == [x \in (DOMAIN m) \ {k} |-> m[x]]
MapInsert(m, k, v) == [x \in (DOMAIN m) \cup {k} |-> IF x = k THEN v ELSE m[x]]
SeqRetainNot(s, k) == SelectSeq(s, LAMBDA x : x # k)

(***************************************************************************)
(* Payload codec.  create_object stores `compress_prepend_size(data)` for  *)
(* payloads longer than the threshold; decompress_object decodes stored    *)
(* bytes longer than the threshold with `decompress_size_prepended`.       *)
(* The codec is the LZ4 block format behind a 4-byte little-endian length  *)
(* prefix.  The decoder below is the block format's decoder; the encoder   *)
(* emits a legal block: inputs shorter than 13 bytes and inputs that do    *)
(* not start with a run are emitted as one literal sequence, an input      *)
(* starting with a run is emitted as one literal, one offset-1 match and   *)
(* the closing literals (the last 5 bytes are always literals).            *)
(***************************************************************************)
Byte == 0 .. 255

SubSeqFrom(s, i) == IF i > Len(s) THEN << >> ELSE SubSeq(s, i, Len(s))

\* u32 little-endian length prefix
SizePrefix(n) ==
    << n % 256, (n \div 256) % 256, (n \div 65536) % 256, (n \div 16777216) % 256 >>

PrefixValue(b) == b[1] + 256 * b[2] + 65536 * b[3] + 16777216 * b[4]

\* LZ4 length extension bytes for a nibble that saturated at 15
RECURSIVE LenExt(_)
LenExt(n) == IF n < 255 THEN << n >> ELSE << 255 >> \o LenExt(n - 255)

Nibble(n) == Min(n, 15)
NibbleExt(n) == IF n >= 15 THEN LenExt(n - 15) ELSE << >>

\* Length of the leading run of the first byte of d
RECURSIVE RunLen(_, _)
RunLen(d, i) ==
    IF i > Len(d) \/ d[i] # d[1] THEN i - 1 ELSE RunLen(d, i + 1)

\* Block format numbers used below: a match is at least 4 bytes long (the
\* token stores length - 4), the last 5 bytes of a block are literals, and an
\* input shorter than 13 bytes holds no match.
\* One closing sequence holding only literals
LiteralBlock(lits) ==
    << 16 * Nibble(Len(lits)) >> \o NibbleExt(Len(lits)) \o lits

LZ4Compress(d) ==
    LET n == Len(d)
        m == IF n = 0 THEN 0 ELSE Min(RunLen(d, 1) - 1, n - 1 - 5)
    IN  IF n >= 13 /\ m >= 4
        THEN << 16 * 1 + Nibble(m - 4) >> \o << d[1] >> \o << 1, 0 >>
                \o NibbleExt(m - 4)
                \o LiteralBlock(SubSeqFrom(d, 2 + m))
        ELSE LiteralBlock(d)

compress_prepend_size(d) == SizePrefix(Len(d)) \o LZ4Compress(d)

\* Reads a length: nibble plus extension bytes starting at position i.
\* Returns <<length, next position>>, or <<-1, 0>> when the input ends early.
RECURSIVE ReadLen(_, _, _)
ReadLen(b, i, acc) ==
    IF i > Len(b) THEN << -1, 0 >>
    ELSE IF b[i] = 255 THEN ReadLen(b, i + 1, acc + 255)
    ELSE << acc + b[i], i + 1 >>

\* Appends `len` bytes copied from `off` bytes back (overlapping copy)
RECURSIVE CopyMatch(_, _, _)
CopyMatch(out, off, len) ==
    IF len = 0 THEN out
    ELSE CopyMatch(Append(out, out[Len(out) + 1 - off]), off, len - 1)

DecodeError == << -1 >>

\* LZ4 block decoder: one sequence per call
RECURSIVE LZ4Decode(_, _, _)
LZ4Decode(b, i, out) ==
    IF i > Len(b) THEN DecodeError
    ELSE
    LET token == b[i]
        litN == token \div 16
        matN == token % 16
        lit == IF litN = 15 THEN ReadLen(b, i + 1, 15) ELSE << litN, i + 1 >>
    IN  IF lit[1] < 0 \/ lit[2] + lit[1] - 1 > Len(b) THEN DecodeError
        ELSE
        LET out1 == out \o SubSeq(b, lit[2], lit[2] + lit[1] - 1)
            j == lit[2] + lit[1]
        IN  IF j > Len(b) THEN out1
            ELSE IF j + 1 > Len(b) THEN DecodeError
            ELSE
            LET off == b[j] + 256 * b[j + 1]
                mat == IF matN = 15 THEN ReadLen(b, j + 2, 15) ELSE << matN, j + 2 >>
            IN  IF mat[1] < 0 \/ off = 0 \/ off > Len(out1) THEN DecodeError
                ELSE LZ4Decode(b, mat[2], CopyMatch(out1, off, mat[1] + 4))

\* Err is DecodeError; Ok is the decoded bytes
decompress_size_prepended(b) ==
    IF Len(b) < 4 THEN DecodeError
    ELSE LET body == SubSeqFrom(b, 5)
             out == IF Len(body) = 0 THEN DecodeError ELSE LZ4Decode(body, 1, << >>)
         IN  IF out = DecodeError \/ Len(out) # PrefixValue(b) THEN DecodeError ELSE out


(***************************************************************************)
(* Bounds and input sets                                                   *)
(***************************************************************************)
MaxOps == 3             \* store calls per behaviour (guards metrics.operations)
ZeroRun == 20           \* length of the compressible payload

BuiltinKinds == {"nodes", "pods"}     \* the match arms of create/get/delete_object
CustomKinds == {"widgets"}            \* any other resource_type: the `_` arm
StoreKinds == {"pods", "widgets"}     \* kinds the store's callers use below
Keys == {"a", "b"}
Thresholds == {2, 16}                 \* config.compression_threshold, scaled down

Zeros(n) == [i \in 1 .. n |-> 0]
Payloads == {<< 1, 2, 3 >>, Zeros(ZeroRun)}

NoLabels == [x \in {} |-> "a"]
Metas ==
    { [namespace |-> Some("ns1"), labels |-> [x \in {"app"} |-> "a"]],
      [namespace |-> Some("ns2"), labels |-> NoLabels],
      [namespace |-> None, labels |-> [x \in {"app"} |-> "b"]] }

\* std::mem::size_of::<CompressedObject>() on a 64-bit target
SizeOfCompressedObject == 232

(***************************************************************************)
(* TeeMemoryStore                                                          *)
(***************************************************************************)
VARIABLES
    store,      \* TeeMemoryStore: stores, indexes, revision, memory_usage, metrics
    last,       \* the last store call: verb, arguments and OperationResult
    assigned    \* versions reported by the successful mutating calls, in call order

storeVars == << store, last, assigned >>

VARIABLES
    now             \* the clock Instant::now() reads, in ticks of 100 ms

VARIABLES
    controllers,    \* TeeControllerManager.controllers: the registered names
    event_queue,    \* EventQueue: the four priority deques and dedup_map
    active,         \* ReconciliationState.active: resource_key -> ActiveReconciliation
    history,        \* ReconciliationState.history, oldest first
    requeue_tasks,  \* the tasks schedule_requeue spawned that are still asleep
    ctl_metrics,    \* ControllerMetrics counters
    shutdown,       \* the value of the shutdown watch channel
    worker,         \* per event worker: where it is and the event it holds
    listener,       \* the store listener task: where it is in its loop
    enq_count,      \* number of queue_event calls so far
    last_queued,    \* dedup key -> instant of the last call that queued its event
    last_enq,       \* the last queue_event call: dedup key, instant, queued?
    streak,         \* per event worker: its consecutive pops that passed over a
                    \* queued event of a lower band
    armed           \* the event workers whose pending sleep was started before
                    \* stop() sent on the shutdown channel

enqVars == << enq_count, last_queued, last_enq, streak, armed >>

ctrlVars == << controllers, event_queue, active, history, requeue_tasks,
               ctl_metrics, shutdown, worker, listener, enqVars >>

VARIABLES
    caller          \* per concurrent store caller: its update_object call and position

VARIABLES
    node_cache,     \* NodeResourceCache: nodes and sorted_nodes
    decision_cache, \* DecisionCache.decisions: pod signature -> CachedDecision
    sched_metrics,  \* SchedulerMetrics counters
    sched_last      \* the last schedule_pod call: the pod and its SchedulingResult

schedVars == << node_cache, decision_cache, sched_metrics, sched_last >>

VARIABLES
    response_cache, \* TeeApiServer.response_cache: cache key -> CachedResponse
    api_last        \* the last request handle_request served, and its response

apiVars == << response_cache, api_last >>

VARIABLES
    sched_worker    \* per concurrent schedule_pod call: its pod and position

VARIABLES
    components,     \* SecureMessageBus.components: the ids registered
    component_keys, \* CryptoContext.component_keys: id -> ComponentKeys
    channels,       \* SecureMessageBus.channels: id -> the incoming queue
    bus_last        \* the last call on the bus and what it returned

busVars == << components, component_keys, channels, bus_last >>

\* What the sequential callers of the store, the controller manager and the
\* scheduler leave alone
outerVars == << apiVars, sched_worker, busVars >>

vars == << storeVars, now, ctrlVars, caller, schedVars, outerVars >>

EmptyMap == << >>

\* TeeMemoryStore::with_config
NewStore(threshold) ==
    [ stores |-> [k \in BuiltinKinds |-> EmptyMap],
      custom_resources |-> EmptyMap,
      namespace_index |-> EmptyMap,
      label_index |-> EmptyMap,
      revision |-> 1,
      memory_usage |-> 0,
      metrics |-> [operations |-> 0, reads |-> 0, writes |-> 0, deletes |-> 0,
                   lists |-> 0],
      compression_threshold |-> threshold ]

\* The primary table of a resource type (an absent custom table reads as empty)
TableOf(s, rt) ==
    IF rt \in BuiltinKinds THEN s.stores[rt]
    ELSE IF rt \in DOMAIN s.custom_resources THEN s.custom_resources[rt]
    ELSE EmptyMap

\* store.insert(key, obj) of create_object, store_custom_resource for the `_` arm
InsertObject(s, rt, key, obj) ==
    IF rt \in BuiltinKinds
    THEN [s EXCEPT !.stores[rt] = MapInsert(@, key, obj)]
    ELSE [s EXCEPT !.custom_resources =
              MapInsert(@, rt, MapInsert(TableOf(s, rt), key, obj))]

\* store.remove(key).is_some() of delete_object, delete_custom_resource
RemoveObject(s, rt, key) ==
    IF key \notin DOMAIN TableOf(s, rt) THEN [s |-> s, deleted |-> FALSE]
    ELSE IF rt \in BuiltinKinds
    THEN [s |-> [s EXCEPT !.stores[rt] = MapRemove(@, key)], deleted |-> TRUE]
    ELSE [s |-> [s EXCEPT !.custom_resources[rt] = MapRemove(@, key)],
          deleted |-> TRUE]

IndexPush(index, entry, key) ==
    MapInsert(index, entry,
              Append(IF entry \in DOMAIN index THEN index[entry] ELSE << >>, key))

\* format!("{}={}", label_key, label_value)
Selector(label_key, label_value) == << label_key, "=", label_value >>

update_indexes_for_create(s, rt, key, metadata) ==
    LET ns == IF metadata.namespace # None
              THEN IndexPush(s.namespace_index, Unwrap(metadata.namespace), key)
              ELSE s.namespace_index
        touched == {Selector(k, metadata.labels[k]) : k \in DOMAIN metadata.labels}
        lbl == [e \in (DOMAIN s.label_index) \cup touched |->
                   IF e \in touched THEN IndexPush(s.label_index, e, key)[e]
                   ELSE s.label_index[e]]
    IN  [s EXCEPT !.namespace_index = ns, !.label_index = lbl]

\* A delete that cleans the namespace index alone
update_indexes_namespace_only(s, rt, key) ==
    [s EXCEPT !.namespace_index = [e \in DOMAIN @ |-> SeqRetainNot(@[e], key)]]

update_indexes_for_delete(s, rt, key) ==
    [s EXCEPT
        !.namespace_index = [e \in DOMAIN @ |-> SeqRetainNot(@[e], key)],
        !.label_index = [e \in DOMAIN @ |-> SeqRetainNot(@[e], key)]]

decompress_object(s, data) ==
    IF Len(data) > s.compression_threshold
    THEN LET r == decompress_size_prepended(data)
         IN  IF r = DecodeError THEN data ELSE r
    ELSE data

\* The CompressedObject create_object builds for revision `revision`
MakeObject(s, data, metadata, revision) ==
    [ data |-> IF Len(data) > s.compression_threshold
               THEN compress_prepend_size(data) ELSE data,
      metadata |-> metadata,
      resource_version |-> revision ]

\* A store that counts a call under its own counter only
CountOp_without_operations(s, counter) ==
    [s EXCEPT !.metrics[counter] = @ + 1]

CountOp(s, counter) ==
    [s EXCEPT !.metrics.operations = @ + 1, !.metrics[counter] = @ + 1]

create_object(s, rt, key, data, metadata) ==
    LET revision == s.revision                      \* fetch_add returns the old value
        s1 == [s EXCEPT !.revision = @ + 1]
        obj == MakeObject(s1, data, metadata, revision)
        s2 == [s1 EXCEPT !.memory_usage = @ + Len(obj.data) + SizeOfCompressedObject]
        s3 == InsertObject(s2, rt, key, obj)
        s4 == update_indexes_for_create(s3, rt, key, metadata)
    IN  [s |-> CountOp(s4, "writes"), data |-> revision, revision |-> revision]

get_object(s, rt, key) ==
    LET t == TableOf(s, rt)
    IN  [ s |-> CountOp(s, "reads"),
          data |-> IF key \in DOMAIN t THEN Some(decompress_object(s, t[key].data)) ELSE None,
          revision |-> s.revision ]

\* QueryOptions (field_selector, continue_token and resource_version are
\* never read).  A label selector is the sequence of its tokens: names and
\* values with "," and "=" between them.
QueryOptions(namespace, label_selector, limit) ==
    [namespace |-> namespace, label_selector |-> label_selector, limit |-> limit]

\* selector.split(','): the parts between the "," tokens
RECURSIVE SplitAt(_, _, _)
SplitAt(tokens, sep, part) ==
    IF tokens = << >> THEN << part >>
    ELSE IF Head(tokens) = sep THEN << part >> \o SplitAt(Tail(tokens), sep, << >>)
    ELSE SplitAt(Tail(tokens), sep, Append(part, Head(tokens)))

\* One part of a selector: it constrains the labels when it holds "=" and
\* splits at "=" into exactly two pieces
PartMatches(labels, part) ==
    LET pieces == SplitAt(part, "=", << >>)
    IN  IF (\E i \in 1 .. Len(part) : part[i] = "=") /\ Len(pieces) = 2
        THEN /\ Len(pieces[1]) = 1
             /\ Len(pieces[2]) = 1
             /\ pieces[1][1] \in DOMAIN labels
             /\ labels[pieces[1][1]] = pieces[2][1]
        ELSE TRUE

matches_label_selector(labels, selector) ==
    LET parts == SplitAt(selector, ",", << >>)
    IN  \A i \in 1 .. Len(parts) : PartMatches(labels, parts[i])

\* The orders in which HashMap::iter may visit the keys of a table
KeyOrders(t) ==
    {o \in [1 .. Cardinality(DOMAIN t) -> DOMAIN t] :
        \A i, j \in DOMAIN o : i # j => o[i] # o[j]}

\* The loop of filter_objects from position i of the iteration order
RECURSIVE FilterFrom(_, _, _, _, _, _)
FilterFrom(s, t, options, order, i, results) ==
    IF i > Len(order) THEN results
    ELSE LET obj == t[order[i]]
         IN  IF options.namespace # None /\ obj.metadata.namespace # options.namespace
             THEN FilterFrom(s, t, options, order, i + 1, results)
             ELSE IF /\ options.label_selector # None
                     /\ ~matches_label_selector(obj.metadata.labels,
                                                Unwrap(options.label_selector))
             THEN FilterFrom(s, t, options, order, i + 1, results)
             ELSE IF options.limit # None /\ Len(results) >= Unwrap(options.limit)
             THEN results
             ELSE FilterFrom(s, t, options, order, i + 1,
                             Append(results, decompress_object(s, obj.data)))

filter_objects(s, t, options, order) == FilterFrom(s, t, options, order, 1, << >>)

\* list_objects when the table is visited in the given order
list_objects(s, rt, options, order) ==
    [ s |-> CountOp(s, "lists"),
      data |-> filter_objects(s, TableOf(s, rt), options, order),
      revision |-> s.revision ]

\* A delete that advances the revision whether or not it removed anything
delete_object_always_bump(s, rt, key) ==
    LET r == RemoveObject(s, rt, key)
        s1 == [update_indexes_for_delete(r.s, rt, key) EXCEPT !.revision = @ + 1]
    IN  [s |-> CountOp(s1, "deletes"), data |-> r.deleted, revision |-> s1.revision]

delete_object(s, rt, key) ==
    LET r == RemoveObject(s, rt, key)
        s1 == IF r.deleted
              THEN [update_indexes_for_delete(r.s, rt, key) EXCEPT !.revision = @ + 1]
              ELSE r.s
    IN  [s |-> CountOp(s1, "deletes"), data |-> r.deleted, revision |-> s1.revision]

Ok(v) == [tag |-> "Ok", value |-> v]
Err(e) == [tag |-> "Err", value |-> e]

update_object(s, rt, key, data, metadata, expected_version) ==
    LET g == get_object(s, rt, key)
    IN  IF expected_version # None /\ g.data = None
        THEN [s |-> g.s, data |-> Err("Object not found"), revision |-> g.s.revision]
        ELSE LET s0 == IF expected_version # None THEN g.s ELSE s
                 d == delete_object(s0, rt, key)
                 c == create_object(d.s, rt, key, data, metadata)
             IN  [s |-> c.s, data |-> Ok(c.data), revision |-> c.revision]


(***************************************************************************)
(* Store calls, one action per public verb.  Each call runs alone here     *)
(* (the callers are sequential); SpecConc below interleaves the store      *)
(* calls of two concurrent update_object callers.                          *)
(***************************************************************************)
ExpectedVersions == {None, Some(1), Some(2)}

NoCall == [op |-> "none", rt |-> None, key |-> None, data |-> None,
           expected |-> None, ret |-> None, revision |-> 0]

\* `data` is the payload argument of a create (None for the other verbs)
Call(op, rt, key, data, expected, r) ==
    [op |-> op, rt |-> rt, key |-> key, data |-> data, expected |-> expected,
     ret |-> r.data, revision |-> r.revision]

\* A fresh store with the given compression threshold
StoreInit(th) ==
    /\ store = NewStore(th)
    /\ last = NoCall
    /\ assigned = << >>

CanCall == store.metrics.operations < MaxOps

notStore == << now, ctrlVars, caller, schedVars, outerVars >>

CreateObject(rt, key, data, metadata) ==
    /\ CanCall
    /\ UNCHANGED notStore
    /\ LET r == create_object(store, rt, key, data, metadata)
       IN  /\ store' = r.s
           /\ last' = Call("create", rt, key, Some(data), None, r)
           /\ assigned' = Append(assigned, r.data)

GetObject(rt, key) ==
    /\ CanCall
    /\ UNCHANGED notStore
    /\ LET r == get_object(store, rt, key)
       IN  /\ store' = r.s
           /\ last' = Call("get", rt, key, None, None, r)
           /\ UNCHANGED assigned

UpdateObject(rt, key, data, metadata, expected_version) ==
    /\ CanCall
    /\ UNCHANGED notStore
    /\ LET r == update_object(store, rt, key, data, metadata, expected_version)
       IN  /\ store' = r.s
           /\ last' = Call("update", rt, key, None, expected_version, r)
           /\ assigned' = IF r.data.tag = "Ok" THEN Append(assigned, r.data.value)
                          ELSE assigned

DeleteObject(rt, key) ==
    /\ CanCall
    /\ UNCHANGED notStore
    /\ LET r == delete_object(store, rt, key)
       IN  /\ store' = r.s
           /\ last' = Call("delete", rt, key, None, None, r)
           /\ assigned' = IF r.data THEN Append(assigned, r.revision) ELSE assigned

\* `order` is the order in which the table is iterated
ListObjects(rt, options, order) ==
    /\ CanCall
    /\ order \in KeyOrders(TableOf(store, rt))
    /\ UNCHANGED notStore
    /\ LET r == list_objects(store, rt, options, order)
       IN  /\ store' = r.s
           /\ last' = [op |-> "list", rt |-> rt, key |-> None, data |-> None,
                       expected |-> None, ret |-> r.data, revision |-> r.revision,
                       options |-> options]
           /\ UNCHANGED assigned

StoreNext ==
    \E rt \in StoreKinds, key \in Keys :
        \/ \E data \in Payloads, metadata \in Metas :
               CreateObject(rt, key, data, metadata)
        \/ GetObject(rt, key)
        \/ \E data \in Payloads, metadata \in Metas, e \in ExpectedVersions :
               UpdateObject(rt, key, data, metadata, e)
        \/ DeleteObject(rt, key)


(***************************************************************************)
(* TeeControllerManager                                                    *)
(***************************************************************************)
MaxEnqueues == 2        \* queue_event calls per behaviour
MaxTime == 2            \* the clock stops here

\* ControllerConfig::default, durations in ticks
DedupWindow == 1        \* dedup_window: 100 ms
MaxRetries == 3         \* max_retries
RetryBaseDelay == 1     \* the 100 ms factor of handle_retry's backoff
HistoryLimit == 1000    \* "keep last 1000"

Workers == {"w1", "w2"}                     \* event workers (worker_threads)
Priorities == {"Critical", "High", "Normal", "Low"}
EventKeys == {"a", "b"}
ControllerNames == {"pod-controller"}       \* a registered Controller impl
RepoControllers == {"replicaset-controller"}    \* ReplicaSetController::name
\* Controller::watches: of ReplicaSetController, and of an implementation
\* that also watches the resource type of trigger_reconciliation's events
Watches(c) ==
    IF c = "replicaset-controller" THEN {"replicasets", "pods"}
    ELSE {"pods", "manual"}
RequeueAfter == 1                           \* the `after` of a Requeue result

\* ReconciliationEvent (data and timestamp are never read)
Event(rt, key, et, prio) ==
    [resource_type |-> rt, resource_key |-> key, event_type |-> et,
     priority |-> prio, retry_count |-> 0]

\* events the store listener would hand to queue_event
InputEvents ==
    {Event("pods", k, "Update", p) : k \in EventKeys, p \in Priorities \ {"High"}}

\* what Controller::reconcile may return (Err is a ControllerError)
Outcomes == {"Success", "Requeue", "Retry", "Failed", "Skipped", "Err"}

\* EventQueue::new
NewEventQueue ==
    [critical |-> << >>, high |-> << >>, normal |-> << >>, low |-> << >>,
     dedup_map |-> EmptyMap]

\* format!("{}:{}", event.resource_type, event.resource_key)
DedupKey(ev) == << ev.resource_type, ":", ev.resource_key >>

Band(prio) ==
    CASE prio = "Critical" -> "critical"
      [] prio = "High" -> "high"
      [] prio = "Normal" -> "normal"
      [] prio = "Low" -> "low"

QueueDepth(q) == Len(q.critical) + Len(q.high) + Len(q.normal) + Len(q.low)

\* Vec push_back on the deque of the event's priority
\* An event waits in a band below the band of priority prio
LowerWaiting(q, prio) ==
    CASE prio = "Critical" -> q.high # << >> \/ q.normal # << >> \/ q.low # << >>
      [] prio = "High" -> q.normal # << >> \/ q.low # << >>
      [] prio = "Normal" -> q.low # << >>
      [] prio = "Low" -> FALSE

\* ControllerConfig.max_queue_size of the manager under check (100000 by
\* default)
MaxQueueSize == 1

\* The number of consecutive pops after which the specification has a worker
\* look at the lower bands (priority_quota, 64 by default; ControllerConfig
\* has no such field)
PriorityQuota == 1

PushEvent(q, ev) == [q EXCEPT ![Band(ev.priority)] = Append(@, ev)]

\* queue_event without the deduplication check
queue_event_no_dedup(q, ev, t) ==
    [q |-> PushEvent([q EXCEPT !.dedup_map = MapInsert(@, DedupKey(ev), t)], ev),
     queued |-> TRUE]

\* queue_event on queue q at instant t: the queue after it and whether the
\* event was queued
queue_event(q, ev, t) ==
    LET k == DedupKey(ev)
        dup == /\ DedupWindow > 0
               /\ k \in DOMAIN q.dedup_map
               /\ t - q.dedup_map[k] < DedupWindow
        q1 == IF DedupWindow > 0
              THEN [q EXCEPT !.dedup_map = MapInsert(@, k, t)]
              ELSE q
    IN  IF dup THEN [q |-> q, queued |-> FALSE]
        ELSE [q |-> PushEvent(q1, ev), queued |-> TRUE]

\* get_next_event polling the deques from the lowest priority up
get_next_event_low_first(q) ==
    LET pop(b) == [q |-> [q EXCEPT ![b] = Tail(@)], event |-> Some(q[b][1])]
    IN  IF q.low # << >> THEN pop("low")
        ELSE IF q.normal # << >> THEN pop("normal")
        ELSE IF q.high # << >> THEN pop("high")
        ELSE IF q.critical # << >> THEN pop("critical")
        ELSE [q |-> q, event |-> None]

\* get_next_event: the event popped (None when all deques are empty) and the
\* queue after it
get_next_event(q) ==
    LET pop(b) == [q |-> [q EXCEPT ![b] = Tail(@)], event |-> Some(q[b][1])]
    IN  IF q.critical # << >> THEN pop("critical")
        ELSE IF q.high # << >> THEN pop("high")
        ELSE IF q.normal # << >> THEN pop("normal")
        ELSE IF q.low # << >> THEN pop("low")
        ELSE [q |-> q, event |-> None]

\* record_reconciliation_success: insert, then drop the oldest beyond the limit
record_reconciliation_success(h, ev) ==
    LET h1 == Append(h, [resource_key |-> ev.resource_key, result |-> "Success",
                         retry_count |-> ev.retry_count])
    IN  IF Len(h1) > HistoryLimit THEN Tail(h1) ELSE h1

\* record_reconciliation_failure: insert only
record_reconciliation_failure(h, ev) ==
    Append(h, [resource_key |-> ev.resource_key, result |-> "Failed",
               retry_count |-> ev.retry_count])

\* schedule_requeue: spawns a task that sleeps `after` and then ends; the
\* task holds the event and a handle on the queue and touches neither
schedule_requeue(tasks, ev, after, cause, t) ==
    tasks \cup {[event |-> ev, due |-> t + after, cause |-> cause]}

Pow2(n) == IF n = 0 THEN 1 ELSE IF n = 1 THEN 2 ELSE IF n = 2 THEN 4 ELSE 8

\* Duration::from_millis(100 * (1 << event.retry_count)) after the increment
RetryDelay(retry_count) == RetryBaseDelay * Pow2(retry_count)

CtrlInit ==
    /\ controllers = {}
    /\ event_queue = NewEventQueue
    /\ active = EmptyMap
    /\ history = << >>
    /\ requeue_tasks = {}
    /\ ctl_metrics = [total_events |-> 0, queue_depth |-> 0,
                      active_reconciliations |-> 0, failed_reconciliations |-> 0]
    /\ shutdown = FALSE
    /\ worker = [w \in Workers |-> [pc |-> "idle", event |-> None, controller |-> None]]
    /\ listener = "select"
    /\ enq_count = 0
    /\ last_queued = EmptyMap
    /\ last_enq = [key |-> None, at |-> 0, queued |-> FALSE]
    /\ streak = [w \in Workers |-> 0]
    /\ armed = {}

notCtrl == << storeVars, caller, schedVars, outerVars >>

\* A worker inside process_event holds the read lock on `controllers`
ControllersReadLocked == \E w \in Workers : worker[w].pc # "idle" /\ worker[w].pc # "stopped"

\* register_controller (takes the write lock on `controllers`)
RegisterController(c) ==
    /\ ~ControllersReadLocked
    /\ c \notin controllers
    /\ controllers' = controllers \cup {c}
    /\ UNCHANGED << event_queue, active, history, requeue_tasks, ctl_metrics,
                    shutdown, worker, enqVars, now, listener,
                    notCtrl >>

\* unregister_controller
UnregisterController(c) ==
    /\ ~ControllersReadLocked
    /\ c \in controllers
    /\ controllers' = controllers \ {c}
    /\ UNCHANGED << event_queue, active, history, requeue_tasks, ctl_metrics,
                    shutdown, worker, enqVars, now, listener,
                    notCtrl >>

\* The body of queue_event as a step of the manager
DoQueueEvent(ev) ==
    /\ enq_count < MaxEnqueues
    /\ LET r == queue_event(event_queue, ev, now)
       IN  /\ event_queue' = r.q
           /\ ctl_metrics' = IF r.queued
                             THEN [ctl_metrics EXCEPT !.queue_depth = QueueDepth(r.q)]
                             ELSE ctl_metrics
           /\ enq_count' = enq_count + 1
           /\ last_queued' = IF r.queued THEN MapInsert(last_queued, DedupKey(ev), now)
                              ELSE last_queued
           /\ last_enq' = [key |-> DedupKey(ev), at |-> now, queued |-> r.queued]
    /\ UNCHANGED << streak, armed >>

\* queue_event called with an event of a watched resource
QueueEvent(ev) ==
    /\ DoQueueEvent(ev)
    /\ UNCHANGED << controllers, active, history, requeue_tasks, shutdown, worker,
                    now, listener,
                    notCtrl >>

\* trigger_reconciliation: a High "manual" event if the controller is registered
TriggerReconciliation(c, key) ==
    /\ c \in controllers
    /\ DoQueueEvent(Event("manual", key, "PeriodicSync", "High"))
    /\ UNCHANGED << controllers, active, history, requeue_tasks, shutdown, worker,
                    now, listener,
                    notCtrl >>

\* start_event_worker, the sleep branch: get_next_event returned an event.
\* Once the shutdown channel has changed, select! can still complete the sleep
\* branch only for a sleep that was pending when stop() sent: the sleep of a
\* later iteration is not ready at its first poll, while changed() is.
WorkerDequeue(w) ==
    /\ worker[w].pc = "idle"
    /\ ~shutdown \/ w \in armed
    /\ armed' = armed \ {w}
    /\ LET r == get_next_event(event_queue)
       IN  /\ r.event # None
           /\ event_queue' = r.q
           /\ worker' = [worker EXCEPT ![w] = [pc |-> "process",
                                               event |-> Unwrap(r.event),
                                               controller |-> None]]
           /\ streak' = [streak EXCEPT ![w] =
                             IF LowerWaiting(event_queue, Unwrap(r.event).priority)
                             THEN Min(@ + 1, PriorityQuota + 1) ELSE 0]
    /\ UNCHANGED << controllers, active, history, requeue_tasks, ctl_metrics,
                    shutdown, enq_count, last_queued, last_enq, now, listener,
                    notCtrl >>

\* process_event up to the call of Controller::reconcile: count the event,
\* find a controller watching its resource type, enter it in `active`
BeginProcess(w) ==
    /\ worker[w].pc = "process"
    /\ LET ev == worker[w].event
           found == {c \in controllers : ev.resource_type \in Watches(c)}
       IN  IF found # {}
           THEN \E c \in found :
                  /\ active' = MapInsert(active, ev.resource_key,
                                         [resource_key |-> ev.resource_key,
                                          controller |-> c,
                                          retry_count |-> ev.retry_count])
                  /\ ctl_metrics' = [ctl_metrics EXCEPT
                                        !.total_events = @ + 1,
                                        !.active_reconciliations = @ + 1]
                  /\ worker' = [worker EXCEPT ![w].pc = "reconcile",
                                              ![w].controller = Some(c)]
                  /\ UNCHANGED history
           ELSE /\ history' = record_reconciliation_failure(history, ev)
                /\ ctl_metrics' = [ctl_metrics EXCEPT
                                      !.total_events = @ + 1,
                                      !.failed_reconciliations = @ + 1]
                /\ worker' = [worker EXCEPT ![w] = [pc |-> "idle", event |-> None,
                                                    controller |-> None]]
                /\ UNCHANGED active
    /\ UNCHANGED << controllers, event_queue, requeue_tasks, shutdown, enqVars,
                    now, listener,
                    notCtrl >>

\* process_event from the return of Controller::reconcile: leave `active`,
\* then handle the result (handle_retry is the Retry arm)
EndReconcile(w, outcome) ==
    /\ worker[w].pc = "reconcile"
    /\ LET ev == worker[w].event
           retry == outcome = "Retry" /\ ev.retry_count < MaxRetries
           failed == outcome \in {"Failed", "Err"}
                     \/ (outcome = "Retry" /\ ~retry)
           bumped == [ev EXCEPT !.retry_count = @ + 1]
       IN  /\ active' = MapRemove(active, ev.resource_key)
           /\ history' = IF outcome = "Success"
                         THEN record_reconciliation_success(history, ev)
                         ELSE IF failed
                         THEN record_reconciliation_failure(history, ev)
                         ELSE history
           /\ requeue_tasks' =
                 IF outcome = "Requeue"
                 THEN schedule_requeue(requeue_tasks, ev, RequeueAfter, "requeue", now)
                 ELSE IF retry
                 THEN schedule_requeue(requeue_tasks, bumped,
                                       RetryDelay(bumped.retry_count), "retry", now)
                 ELSE requeue_tasks
           /\ ctl_metrics' = [ctl_metrics EXCEPT
                                 !.active_reconciliations = @ - 1,
                                 !.failed_reconciliations =
                                     IF failed THEN @ + 1 ELSE @]
    /\ worker' = [worker EXCEPT ![w] = [pc |-> "idle", event |-> None,
                                        controller |-> None]]
    /\ UNCHANGED << controllers, event_queue, shutdown, enqVars, now, listener,
                    notCtrl >>

\* The task of schedule_requeue wakes after its sleep and ends
RequeueWake(task) ==
    /\ task \in requeue_tasks
    /\ now >= task.due
    /\ requeue_tasks' = requeue_tasks \ {task}
    /\ UNCHANGED << controllers, event_queue, active, history, ctl_metrics,
                    shutdown, worker, enqVars, now, listener,
                    notCtrl >>

\* stop(): shutdown_tx.send(true).  The workers waiting in select! have a
\* sleep pending that may expire before they are polled again.
Stop ==
    /\ ~shutdown
    /\ shutdown' = TRUE
    /\ armed' = {w \in Workers : worker[w].pc = "idle"}
    /\ UNCHANGED << controllers, event_queue, active, history, requeue_tasks,
                    ctl_metrics, worker, enq_count, last_queued, last_enq, streak,
                    now, listener, notCtrl >>

\* A worker whose shutdown branch does not leave the loop: it has seen the
\* change of the channel and goes back to select!, where only its sleep can
\* complete from then on
WorkerStop_no_break(w) ==
    /\ worker[w].pc = "idle"
    /\ shutdown
    /\ armed' = armed \cup {w}
    /\ UNCHANGED << controllers, event_queue, active, history, requeue_tasks,
                    ctl_metrics, shutdown, worker, enq_count, last_queued,
                    last_enq, streak, now, listener, notCtrl >>

\* start_event_worker, the shutdown branch of select!
WorkerStop(w) ==
    /\ worker[w].pc = "idle"
    /\ shutdown
    /\ worker' = [worker EXCEPT ![w].pc = "stopped"]
    /\ UNCHANGED << controllers, event_queue, active, history, requeue_tasks,
                    ctl_metrics, shutdown, enqVars, now, listener,
                    notCtrl >>

Tick ==
    /\ now < MaxTime
    /\ now' = now + 1
    /\ UNCHANGED << ctrlVars, notCtrl >>

\* start_store_listener, the sleep branch of its select!: 100 ms have passed
ListenerWake ==
    /\ listener = "select"
    /\ ~shutdown
    /\ listener' = "poll"
    /\ UNCHANGED << controllers, event_queue, active, history, requeue_tasks,
                    ctl_metrics, shutdown, worker, enqVars, now, notCtrl >>

\* start_store_listener, the body of the sleep branch: it reads nothing from
\* the store and sends nothing on event_tx, then the loop selects again
ListenerPoll ==
    /\ listener = "poll"
    /\ listener' = "select"
    /\ UNCHANGED << controllers, event_queue, active, history, requeue_tasks,
                    ctl_metrics, shutdown, worker, enqVars, now, notCtrl >>

(***************************************************************************)
(* update_object under two concurrent callers.  TeeMemoryStore takes no    *)
(* lock across update_object: its three calls (get_object, delete_object,  *)
(* create_object) are the steps that interleave.                           *)
(***************************************************************************)
Callers == {"t1", "t2"}
ConcKind == "pods"
ConcKey == "a"

CallerInit ==
    caller = [c \in Callers |-> [pc |-> "start", expected |-> None, ret |-> None]]

\* update_object(.., expected_version = Some(e)), the version check: get_object
\* and the early return when the object is absent
UpdateCheck(c, e) ==
    /\ caller[c].pc = "start"
    /\ LET g == get_object(store, ConcKind, ConcKey)
       IN  /\ store' = g.s
           /\ caller' = [caller EXCEPT ![c] =
                 IF g.data = None
                 THEN [pc |-> "done", expected |-> Some(e),
                       ret |-> Some(Err("Object not found"))]
                 ELSE [pc |-> "delete", expected |-> Some(e), ret |-> None]]
    /\ UNCHANGED << last, assigned, now, ctrlVars, schedVars, outerVars >>

\* update_object: `let _ = self.delete_object(resource_type, key)`
UpdateDelete(c) ==
    /\ caller[c].pc = "delete"
    /\ store' = delete_object(store, ConcKind, ConcKey).s
    /\ caller' = [caller EXCEPT ![c].pc = "create"]
    /\ UNCHANGED << last, assigned, now, ctrlVars, schedVars, outerVars >>

\* update_object: create_object and the Ok(version) it returns
UpdateCreate(c, data, metadata) ==
    /\ caller[c].pc = "create"
    /\ LET r == create_object(store, ConcKind, ConcKey, data, metadata)
       IN  /\ store' = r.s
           /\ caller' = [caller EXCEPT ![c].pc = "done",
                                       ![c].ret = Some(Ok(r.data))]
    /\ UNCHANGED << last, assigned, now, ctrlVars, schedVars, outerVars >>

(***************************************************************************)
(* create_object, delete_object and list_objects under concurrent callers, *)
(* one action per lock section or atomic operation.  Each verb takes the   *)
(* lock of the kind's table, the lock of the indexes and the revision      *)
(* counter one after the other and holds none of them across two steps.    *)
(***************************************************************************)
StepKind == "pods"
StepPayload == << 1, 2, 3 >>
StepMeta == [namespace |-> Some("ns1"), labels |-> [x \in {"app"} |-> "a"]]

Idle == [pc |-> "idle", key |-> None, revision |-> 0, at_start |-> 0,
         items |-> << >>, versions |-> {}, deleted |-> FALSE]

StepInit == caller = [c \in Callers |-> Idle]

InFlight == {c \in Callers : caller[c].pc # "idle"}

\* A caller may enter a verb while calls remain
CanStart(c) ==
    /\ caller[c].pc = "idle"
    /\ store.metrics.operations + Cardinality(InFlight) < MaxOps

notStep == << now, ctrlVars, schedVars, outerVars >>

\* create_object: self.revision.fetch_add(1)
CreateFetchAdd(c, key) ==
    /\ CanStart(c)
    /\ caller' = [caller EXCEPT ![c] = [Idle EXCEPT !.pc = "insert", !.key = Some(key),
                                                    !.revision = store.revision]]
    /\ store' = [store EXCEPT !.revision = @ + 1]
    /\ UNCHANGED << last, assigned, notStep >>

\* create_object: the memory counter and the insert under the table's lock
CreateInsert(c) ==
    /\ caller[c].pc = "insert"
    /\ LET obj == MakeObject(store, StepPayload, StepMeta, caller[c].revision)
           s2 == [store EXCEPT !.memory_usage = @ + Len(obj.data) + SizeOfCompressedObject]
       IN  store' = InsertObject(s2, StepKind, Unwrap(caller[c].key), obj)
    /\ caller' = [caller EXCEPT ![c].pc = "index"]
    /\ UNCHANGED << last, assigned, notStep >>

\* create_object: update_indexes_for_create under the indexes' lock, then the
\* metrics and the return
CreateIndex(c) ==
    /\ caller[c].pc = "index"
    /\ LET key == Unwrap(caller[c].key)
           s4 == update_indexes_for_create(store, StepKind, key, StepMeta)
           r == [s |-> CountOp(s4, "writes"), data |-> caller[c].revision,
                 revision |-> caller[c].revision]
       IN  /\ store' = r.s
           /\ last' = Call("create", StepKind, key, Some(StepPayload), None, r)
           /\ assigned' = Append(assigned, r.data)
    /\ caller' = [caller EXCEPT ![c] = Idle]
    /\ UNCHANGED notStep

\* delete_object: the remove under the table's lock
DeleteRemove(c, key) ==
    /\ CanStart(c)
    /\ LET r == RemoveObject(store, StepKind, key)
       IN  /\ store' = r.s
           /\ caller' = [caller EXCEPT ![c] = [Idle EXCEPT !.pc = "unindex",
                                                           !.key = Some(key),
                                                           !.deleted = r.deleted]]
    /\ UNCHANGED << last, assigned, notStep >>

\* delete_object: update_indexes_for_delete under the indexes' lock (skipped
\* when nothing was removed)
DeleteIndex(c) ==
    /\ caller[c].pc = "unindex"
    /\ store' = IF caller[c].deleted
                THEN update_indexes_for_delete(store, StepKind, Unwrap(caller[c].key))
                ELSE store
    /\ caller' = [caller EXCEPT ![c].pc = "bump"]
    /\ UNCHANGED << last, assigned, notStep >>

\* delete_object: the revision counter, the metrics and the return
DeleteBump(c) ==
    /\ caller[c].pc = "bump"
    /\ LET s1 == IF caller[c].deleted THEN [store EXCEPT !.revision = @ + 1] ELSE store
           r == [s |-> CountOp(s1, "deletes"), data |-> caller[c].deleted,
                 revision |-> s1.revision]
       IN  /\ store' = r.s
           /\ last' = Call("delete", StepKind, Unwrap(caller[c].key), None, None, r)
           /\ assigned' = IF r.data THEN Append(assigned, r.revision) ELSE assigned
    /\ caller' = [caller EXCEPT ![c] = Idle]
    /\ UNCHANGED notStep

\* list_objects is entered (the counter as it stands then is kept for reference)
ListBegin(c) ==
    /\ CanStart(c)
    /\ caller' = [caller EXCEPT ![c] = [Idle EXCEPT !.pc = "filter",
                                                    !.at_start = store.revision]]
    /\ UNCHANGED << storeVars, notStep >>

\* list_objects: filter_objects under the table's lock; `versions` are the
\* resource versions of the records whose payloads were collected
ListFilter(c, order) ==
    /\ caller[c].pc = "filter"
    /\ order \in KeyOrders(TableOf(store, StepKind))
    /\ LET t == TableOf(store, StepKind)
       IN  caller' = [caller EXCEPT
               ![c].pc = "load",
               ![c].items = filter_objects(store, t, QueryOptions(None, None, None), order),
               ![c].versions = {t[k].resource_version : k \in DOMAIN t}]
    /\ UNCHANGED << storeVars, notStep >>

\* The revision a list reports when the counter stood at at_start on entry
\* and stands at at_end after the scan
list_revision_at_start(at_start, at_end) == at_start

list_revision(at_start, at_end) == at_end

\* list_objects: self.revision.load() after the scan, the metrics and the return
ListLoad(c) ==
    /\ caller[c].pc = "load"
    /\ store' = CountOp(store, "lists")
    /\ last' = [op |-> "list", rt |-> StepKind, key |-> None, data |-> None,
                expected |-> None, ret |-> caller[c].items,
                revision |-> list_revision(caller[c].at_start, store.revision),
                options |-> QueryOptions(None, None, None),
                versions |-> caller[c].versions]
    /\ caller' = [caller EXCEPT ![c] = Idle]
    /\ UNCHANGED << assigned, notStep >>

(***************************************************************************)
(* TeeScheduler.  Memory and storage are counted in MiB, scores in         *)
(* thousandths of a point.                                                 *)
(***************************************************************************)
MaxSchedules == 2           \* schedule_pod calls per behaviour
DecisionCacheTtl == 300     \* decision_cache_ttl: 30 s, in ticks of 100 ms
MaxCacheSize == 10000       \* max_cache_size
MaxPodsPerNode == 110       \* max_pods of calculate_load_balancing_score

NodeNames == {"alpha", "mock-node"}
NodeKeys == {"a"}            \* store keys of the node objects

Conditions(ready, memory_pressure, disk_pressure) ==
    [ready |-> ready, memory_pressure |-> memory_pressure,
     disk_pressure |-> disk_pressure, pid_pressure |-> FALSE]

NodeInfo(name, cpu, memory, storage, labels, taints, conditions) ==
    [name |-> name, available_cpu |-> cpu, available_memory |-> memory,
     available_storage |-> storage, labels |-> labels, taints |-> taints,
     pod_count |-> 0, conditions |-> conditions, score |-> 80000]

\* parse_node_data: every stored node parses to the same mock node
parse_node_data(data) ==
    NodeInfo("mock-node", 4000, 8 * 1024, 100 * 1024, NoLabels, << >>,
             Conditions(TRUE, FALSE, FALSE))

Healthy == Conditions(TRUE, FALSE, FALSE)
DedicatedTaint == [key |-> "dedicated", value |-> None, effect |-> "NoSchedule"]
EvictTaint == [key |-> "evict", value |-> None, effect |-> "NoExecute"]

\* The CachedNodeInfo values update_node is called with: every case of the
\* filters for the node name the store's nodes parse to, one for another name
NodeInfos(name) ==
    { NodeInfo(name, 4000, 8192, 102400, [x \in {"zone"} |-> "a"], << >>, Healthy) }
    \cup
    IF name # "mock-node" THEN {}
    ELSE { NodeInfo(name, 1000, 2048, 102400, NoLabels, << >>, Healthy),
           NodeInfo(name, 4000, 8192, 512, NoLabels, << >>, Healthy),
           NodeInfo(name, 4000, 8192, 102400, NoLabels, << >>,
                    Conditions(FALSE, FALSE, FALSE)),
           NodeInfo(name, 4000, 8192, 102400, NoLabels, << >>,
                    Conditions(TRUE, TRUE, FALSE)),
           NodeInfo(name, 4000, 8192, 102400, NoLabels, << >>,
                    Conditions(TRUE, FALSE, TRUE)),
           NodeInfo(name, 4000, 8192, 102400, NoLabels,
                    << DedicatedTaint, EvictTaint >>, Healthy) }

Resources(cpu, memory, storage) ==
    [cpu_request |-> cpu, memory_request |-> memory, storage_request |-> storage]

Requirement(key, operator, values) ==
    [key |-> key, operator |-> operator, values |-> values]

ZoneA ==
    [required |-> Some(<< [match_expressions |-> << Requirement("zone", "In", {"a"}) >>,
                           match_fields |-> << >>] >>),
     preferred |-> << >>]

\* The PendingPods schedule_pod is called with
Pods ==
    { [id |-> "p1", resources |-> Resources(1500, 1024, 1024), node_affinity |-> None,
       tolerations |-> << >>, priority |-> 0],
      [id |-> "p2", resources |-> Resources(500, 4096, 0), node_affinity |-> Some(ZoneA),
       tolerations |-> << >>, priority |-> 0],
      [id |-> "p3", resources |-> Resources(1500, 1024, 1024), node_affinity |-> None,
       tolerations |-> << [key |-> Some("dedicated")] >>, priority |-> 0] }

NewNodeCache == [nodes |-> EmptyMap, sorted_nodes |-> << >>]

\* has_sufficient_resources comparing the CPU request only
has_sufficient_cpu(node, requirements) ==
    node.available_cpu >= requirements.cpu_request

has_sufficient_resources(node, requirements) ==
    /\ node.available_cpu >= requirements.cpu_request
    /\ node.available_memory >= requirements.memory_request
    /\ node.available_storage >= requirements.storage_request

toleration_matches_taint(toleration, taint) ==
    IF toleration.key # None THEN Unwrap(toleration.key) = taint.key ELSE TRUE

check_tolerations(node, tolerations) ==
    \A i \in 1 .. Len(node.taints) :
        \/ \E j \in 1 .. Len(tolerations) :
               toleration_matches_taint(tolerations[j], node.taints[i])
        \/ node.taints[i].effect # "NoSchedule"

calculate_resource_score(node, requirements) ==
    LET cpu_ratio == (requirements.cpu_request * 1000) \div Max(node.available_cpu, 1)
        memory_ratio ==
            (requirements.memory_request * 1000) \div Max(node.available_memory, 1)
        cpu_score == 1000 - Abs(cpu_ratio - 700)
        memory_score == 1000 - Abs(memory_ratio - 700)
    IN  (cpu_score + memory_score) \div 2

evaluate_node_selector_requirement(node, req) ==
    LET has == req.key \in DOMAIN node.labels
    IN  CASE req.operator = "In" -> has /\ node.labels[req.key] \in req.values
          [] req.operator = "NotIn" -> ~has \/ node.labels[req.key] \notin req.values
          [] req.operator = "Exists" -> has
          [] req.operator = "DoesNotExist" -> ~has
          [] OTHER -> TRUE

node_matches_selector_term(node, term) ==
    /\ \A i \in 1 .. Len(term.match_expressions) :
           evaluate_node_selector_requirement(node, term.match_expressions[i])
    /\ \A i \in 1 .. Len(term.match_fields) :
           evaluate_node_selector_requirement(node, term.match_fields[i])

node_matches_selector(node, terms) ==
    \E i \in 1 .. Len(terms) : node_matches_selector_term(node, terms[i])

RECURSIVE PreferredScore(_, _, _)
PreferredScore(node, preferred, i) ==
    IF i > Len(preferred) THEN 0
    ELSE (IF node_matches_selector_term(node, preferred[i].preference)
          THEN preferred[i].weight * 10 ELSE 0)
         + PreferredScore(node, preferred, i + 1)

calculate_node_affinity_score(node, affinity) ==
    IF affinity.required # None /\ ~node_matches_selector(node, Unwrap(affinity.required))
    THEN 0
    ELSE Min((IF affinity.required # None THEN 500 ELSE 0)
             + PreferredScore(node, affinity.preferred, 1), 1000)

calculate_pod_affinity_score(node, pod) == 500

calculate_load_balancing_score(node) ==
    1000 - (node.pod_count * 1000) \div MaxPodsPerNode

calculate_condition_score(node) ==
    Max(1000 - (IF node.conditions.ready THEN 0 ELSE 800)
             - (IF node.conditions.memory_pressure THEN 200 ELSE 0)
             - (IF node.conditions.disk_pressure THEN 200 ELSE 0)
             - (IF node.conditions.pid_pressure THEN 100 ELSE 0), 0)

calculate_node_score(node, pod) ==
    calculate_resource_score(node, pod.resources) * 40
    + (IF pod.node_affinity # None
       THEN calculate_node_affinity_score(node, Unwrap(pod.node_affinity)) * 20 ELSE 0)
    + calculate_pod_affinity_score(node, pod) * 20
    + calculate_load_balancing_score(node) * 10
    + calculate_condition_score(node) * 10

\* The filters of find_best_node's loop body
PassesFilters(node, pod) ==
    /\ has_sufficient_resources(node, pod.resources)
    /\ ~(~node.conditions.ready \/ node.conditions.memory_pressure
         \/ node.conditions.disk_pressure)
    /\ check_tolerations(node, pod.tolerations)

\* find_best_node's loop from position i of sorted_nodes
RECURSIVE FindBestFrom(_, _, _, _, _)
FindBestFrom(nc, pod, i, best_node, best_score) ==
    IF i > Len(nc.sorted_nodes) THEN [node |-> best_node, score |-> best_score]
    ELSE LET name == nc.sorted_nodes[i]
             take == /\ name \in DOMAIN nc.nodes
                     /\ PassesFilters(nc.nodes[name], pod)
                     /\ calculate_node_score(nc.nodes[name], pod) > best_score
             score == calculate_node_score(nc.nodes[name], pod)
         IN  IF ~take THEN FindBestFrom(nc, pod, i + 1, best_node, best_score)
             ELSE IF score >= 100000 THEN [node |-> Some(name), score |-> score]
             ELSE FindBestFrom(nc, pod, i + 1, Some(name), score)

find_best_node(nc, pod) ==
    LET r == FindBestFrom(nc, pod, 1, None, 0)
    IN  IF r.node = None THEN None
        ELSE Some([node |-> Unwrap(r.node), score |-> r.score])

generate_pod_signature(pod) ==
    << pod.resources.cpu_request, ":", pod.resources.memory_request, ":",
       pod.resources.storage_request, ":", pod.priority >>

\* DecisionCache::get at instant t
decision_cache_get(dc, key, t) ==
    IF key \in DOMAIN dc /\ t - dc[key].timestamp < DecisionCacheTtl
    THEN Some(dc[key]) ELSE None

\* DecisionCache::put; `victim` is the key HashMap::keys().next() yields when
\* the cache is full
decision_cache_put(dc, key, decision, victim) ==
    MapInsert(IF Cardinality(DOMAIN dc) >= MaxCacheSize THEN MapRemove(dc, victim)
              ELSE dc,
              key, decision)

validate_cached_decision(nc, pod, decision, t) ==
    IF t - decision.timestamp > DecisionCacheTtl THEN FALSE
    ELSE IF decision.node \in DOMAIN nc.nodes
    THEN has_sufficient_resources(nc.nodes[decision.node], pod.resources)
    ELSE FALSE

allocate_resources(nc, node_name, resources) ==
    IF node_name \in DOMAIN nc.nodes
    THEN [nc EXCEPT !.nodes[node_name] =
             [@ EXCEPT !.available_cpu = @ - resources.cpu_request,
                       !.available_memory = @ - resources.memory_request,
                       !.available_storage = @ - resources.storage_request,
                       !.pod_count = @ + 1]]
    ELSE nc

\* schedule_pod at instant t: the caches after it and the SchedulingResult
schedule_pod(nc, dc, pod, t, victim) ==
    LET cache_key == generate_pod_signature(pod)
        cached == decision_cache_get(dc, cache_key, t)
        hit == cached # None /\ validate_cached_decision(nc, pod, Unwrap(cached), t)
        best == find_best_node(nc, pod)
    IN  IF hit
        THEN [nc |-> nc, dc |-> dc, node |-> Some(Unwrap(cached).node),
              score |-> Unwrap(cached).score, cached |-> TRUE]
        ELSE IF best # None
        THEN [nc |-> allocate_resources(nc, Unwrap(best).node, pod.resources),
              dc |-> decision_cache_put(dc, cache_key,
                        [node |-> Unwrap(best).node, score |-> Unwrap(best).score,
                         timestamp |-> t, projected_usage |-> pod.resources],
                        victim),
              node |-> Some(Unwrap(best).node), score |-> Unwrap(best).score,
              cached |-> FALSE]
        ELSE [nc |-> nc, dc |-> dc, node |-> None, score |-> 0, cached |-> FALSE]

NoSchedule == [pod |-> None, node |-> None, score |-> 0, cached |-> FALSE]

SchedInit ==
    /\ node_cache = NewNodeCache
    /\ decision_cache = EmptyMap
    /\ sched_metrics = [total_schedules |-> 0, successful_schedules |-> 0,
                        failed_schedules |-> 0, pending_pods |-> 0]
    /\ sched_last = NoSchedule

SchedulePod(pod) ==
    /\ sched_metrics.total_schedules < MaxSchedules
    /\ \E victim \in (IF decision_cache = EmptyMap THEN {None}
                      ELSE DOMAIN decision_cache) :
         LET r == schedule_pod(node_cache, decision_cache, pod, now, victim)
         IN  /\ node_cache' = r.nc
             /\ decision_cache' = r.dc
             /\ sched_last' = [pod |-> Some(pod), node |-> r.node, score |-> r.score,
                               cached |-> r.cached]
             /\ sched_metrics' = [sched_metrics EXCEPT
                    !.total_schedules = @ + 1,
                    !.successful_schedules = IF r.node # None THEN @ + 1 ELSE @,
                    !.failed_schedules = IF r.node = None THEN @ + 1 ELSE @]
    /\ UNCHANGED << storeVars, now, ctrlVars, caller, outerVars >>

\* update_node -> NodeResourceCache::update_node
UpdateNode(node_name, node_info) ==
    /\ node_cache' = [node_cache EXCEPT !.nodes = MapInsert(@, node_name, node_info)]
    /\ UNCHANGED << decision_cache, sched_metrics, sched_last,
                    storeVars, now, ctrlVars, caller, outerVars >>

\* remove_node -> NodeResourceCache::remove_node
RemoveNode(node_name) ==
    /\ node_cache' = [node_cache EXCEPT !.nodes = MapRemove(@, node_name)]
    /\ UNCHANGED << decision_cache, sched_metrics, sched_last,
                    storeVars, now, ctrlVars, caller, outerVars >>

\* refresh_node_cache: list the store's "nodes", parse each, replace the cache.
\* The listed payloads are not kept in `last`: parse_node_data ignores them.
RefreshNodeCache ==
    /\ CanCall
    /\ LET listed == DOMAIN TableOf(store, "nodes")
           new_nodes == IF listed = {} THEN EmptyMap
                        ELSE [n \in {"mock-node"} |-> parse_node_data(<< >>)]
       IN  /\ node_cache' = [nodes |-> new_nodes,
                             sorted_nodes |-> [i \in 1 .. Cardinality(listed) |->
                                                  "mock-node"]]
           /\ store' = CountOp(store, "lists")
           /\ last' = [NoCall EXCEPT !.op = "list", !.rt = Some("nodes"),
                                     !.revision = store.revision]
    /\ UNCHANGED << assigned, decision_cache, sched_metrics, sched_last,
                    now, ctrlVars, caller, outerVars >>

\* The clock between scheduler calls, in steps of half the decision TTL
TtlTick ==
    /\ now < MaxTime * (DecisionCacheTtl \div 2)
    /\ now' = now + DecisionCacheTtl \div 2
    /\ UNCHANGED << storeVars, ctrlVars, caller, schedVars, outerVars >>

(***************************************************************************)
(* TeeApiServer::handle_request over the store.  A request is a method     *)
(* and the path of one cluster-scoped resource of a kind; its query is     *)
(* empty.  Bodies are byte sequences as in the store.                      *)
(***************************************************************************)
CacheTtl == 600             \* ApiServerConfig::default cache_ttl: 60 s
MaxResponseCacheSize == 10000   \* ApiServerConfig::default max_cache_size

ApiMethods == {"GET", "POST", "PUT", "PATCH", "DELETE"}
NotFoundBody == << 4, 0, 4 >>       \* {"error": "Resource not found"}
DeletedBody == << 2, 0, 0 >>        \* {"status": "Success"}
ConflictBody == << 4, 0, 9 >>       \* {"error": "<the update's error>"}

\* ObjectMetadata built by handle_create_resource and handle_update_resource
ApiMeta == [namespace |-> None, labels |-> NoLabels]

ApiResponse(s, status, body) == [s |-> s, status |-> status, body |-> body]

\* generate_cache_key: method, path and query
generate_cache_key(method, rt, key) == << method, rt, key >>

\* ResponseCache::get: the entry, while younger than the TTL
response_cache_get(cache, key, t) ==
    IF key \in DOMAIN cache /\ t - cache[key].cached_at < CacheTtl
    THEN Some(cache[key]) ELSE None

\* ResponseCache::put: a full cache first drops `victim`, the first key of
\* its iteration
response_cache_put(cache, key, body, t, victim) ==
    LET c1 == IF Cardinality(DOMAIN cache) >= MaxResponseCacheSize
              THEN MapRemove(cache, victim) ELSE cache
    IN  MapInsert(c1, key, [data |-> body, cached_at |-> t])

\* The responses the handlers build from the store's OperationResult
GetResponse(r) ==
    IF r.data # None THEN ApiResponse(r.s, 200, Unwrap(r.data))
    ELSE ApiResponse(r.s, 404, NotFoundBody)

UpdateResponse(r, body) ==
    IF r.data.tag = "Ok" THEN ApiResponse(r.s, 200, body)
    ELSE ApiResponse(r.s, 409, ConflictBody)

DeleteResponse(r) ==
    IF r.data THEN ApiResponse(r.s, 200, DeletedBody)
    ELSE ApiResponse(r.s, 404, NotFoundBody)

handle_get_resource(s, rt, key) == GetResponse(get_object(s, rt, key))

\* the result of create_object is not looked at
handle_create_resource(s, rt, key, body) ==
    ApiResponse(create_object(s, rt, key, body, ApiMeta).s, 201, body)

handle_update_resource(s, rt, key, body) ==
    UpdateResponse(update_object(s, rt, key, body, ApiMeta, None), body)

handle_delete_resource(s, rt, key) == DeleteResponse(delete_object(s, rt, key))

\* process_api_request: route on the method (PATCH is handled as PUT)
process_api_request(s, method, rt, key, body) ==
    CASE method = "GET" -> handle_get_resource(s, rt, key)
      [] method = "POST" -> handle_create_resource(s, rt, key, body)
      [] method \in {"PUT", "PATCH"} -> handle_update_resource(s, rt, key, body)
      [] method = "DELETE" -> handle_delete_resource(s, rt, key)

ApiLast(method, rt, key, status, body, hit) ==
    [method |-> method, rt |-> Some(rt), key |-> Some(key), status |-> status,
     body |-> body, hit |-> hit]

\* handle_request from process_api_request on: a GET answered with 200 is
\* cached
Processed(method, rt, key, response, victim) ==
    /\ store' = response.s
    /\ response_cache' =
          IF method = "GET" /\ response.status = 200
          THEN response_cache_put(response_cache, generate_cache_key(method, rt, key),
                                  response.body, now, victim)
          ELSE response_cache
    /\ api_last' = ApiLast(method, rt, key, response.status, response.body, FALSE)

\* handle_request up to the cache check: a GET is answered from the
\* response cache when it holds a live entry for the request
CacheHit(method, rt, key, cached) ==
    /\ method = "GET" /\ cached # None
    /\ api_last' = ApiLast(method, rt, key, 200, Unwrap(cached).data, TRUE)
    /\ UNCHANGED << store, response_cache >>

\* handle_request with enable_caching.  `allowed` is the rate limiter's
\* answer for the client; `victim` the key a full cache drops.
HandleRequest(method, rt, key, body, allowed, victim) ==
    /\ IF Cardinality(DOMAIN response_cache) >= MaxResponseCacheSize
       THEN victim \in DOMAIN response_cache
       ELSE victim = generate_cache_key(method, rt, key)
    /\ IF ~allowed
       THEN /\ api_last' = ApiLast(method, rt, key, 429, << >>, FALSE)
            /\ UNCHANGED << store, response_cache >>
       ELSE IF method = "GET"
               /\ response_cache_get(response_cache,
                                     generate_cache_key(method, rt, key), now) # None
       THEN CacheHit(method, rt, key,
                     response_cache_get(response_cache,
                                        generate_cache_key(method, rt, key), now))
       ELSE /\ CanCall
            /\ Processed(method, rt, key,
                         process_api_request(store, method, rt, key, body), victim)
    /\ UNCHANGED << last, assigned, now, ctrlVars, caller, schedVars, sched_worker,
                    busVars >>

(***************************************************************************)
(* schedule_pod under concurrent callers (the scheduling workers and the   *)
(* callers of the public method), one action per lock section: the check   *)
(* of the decision cache and find_best_node under the read lock of the     *)
(* node cache, then the decision cache put and allocate_resources under    *)
(* its write lock.  No lock is held from the one to the other.             *)
(***************************************************************************)
SchedWorkers == {"s1", "s2"}

SchedIdle == [pc |-> "idle", pod |-> None, best |-> None]

\* schedule_pod up to the return of find_best_node; a valid cached decision
\* ends the call here
ScheduleFind(w, pod) ==
    /\ sched_worker[w].pc = "idle"
    /\ sched_metrics.total_schedules < MaxSchedules
    /\ LET cached == decision_cache_get(decision_cache, generate_pod_signature(pod), now)
           hit == cached # None
                  /\ validate_cached_decision(node_cache, pod, Unwrap(cached), now)
       IN  IF hit
           THEN /\ sched_last' = [pod |-> Some(pod), node |-> Some(Unwrap(cached).node),
                                  score |-> Unwrap(cached).score, cached |-> TRUE]
                /\ sched_metrics' = [sched_metrics EXCEPT
                                        !.total_schedules = @ + 1,
                                        !.successful_schedules = @ + 1]
                /\ UNCHANGED sched_worker
           ELSE /\ sched_worker' = [sched_worker EXCEPT ![w] =
                       [pc |-> "found", pod |-> Some(pod),
                        best |-> find_best_node(node_cache, pod)]]
                /\ sched_metrics' = [sched_metrics EXCEPT !.total_schedules = @ + 1]
                /\ UNCHANGED sched_last
    /\ UNCHANGED << node_cache, decision_cache, storeVars, now, ctrlVars, caller,
                    apiVars, busVars >>

\* schedule_pod from the return of find_best_node: cache the decision and
\* allocate the pod's resources on the node found
ScheduleAllocate(w, victim) ==
    /\ sched_worker[w].pc = "found"
    /\ IF decision_cache = EmptyMap THEN victim = None
       ELSE victim \in DOMAIN decision_cache
    /\ LET pod == Unwrap(sched_worker[w].pod)
           best == sched_worker[w].best
       IN  IF best # None
           THEN /\ decision_cache' = decision_cache_put(decision_cache,
                       generate_pod_signature(pod),
                       [node |-> Unwrap(best).node, score |-> Unwrap(best).score,
                        timestamp |-> now, projected_usage |-> pod.resources],
                       victim)
                /\ node_cache' = allocate_resources(node_cache, Unwrap(best).node,
                                                    pod.resources)
                /\ sched_last' = [pod |-> Some(pod), node |-> Some(Unwrap(best).node),
                                  score |-> Unwrap(best).score, cached |-> FALSE]
                /\ sched_metrics' = [sched_metrics EXCEPT !.successful_schedules = @ + 1]
           ELSE /\ sched_last' = [pod |-> Some(pod), node |-> None, score |-> 0,
                                  cached |-> FALSE]
                /\ sched_metrics' = [sched_metrics EXCEPT !.failed_schedules = @ + 1]
                /\ UNCHANGED << node_cache, decision_cache >>
    /\ sched_worker' = [sched_worker EXCEPT ![w] = SchedIdle]
    /\ UNCHANGED << storeVars, now, ctrlVars, caller, apiVars, busVars >>

(***************************************************************************)
(* The secure message bus (secure_communication.rs).  A message carries    *)
(* its sender, recipient, type, payload and signature; its timestamp is    *)
(* read as its age in seconds at the time of the call.  The bus is built   *)
(* with SecurityPolicies::default(): encryption and signatures required,   *)
(* no component trusted, none blocked; no method of the bus writes to the  *)
(* two lists.                                                              *)
(***************************************************************************)
MaxMessageSize == 1048576
MaxMessageAge == 60

require_encryption == TRUE
require_signatures == TRUE
trusted_components == EmptyMap
blocked_components == EmptyMap

ComponentIds == {"api", "sched", "ext"}
ComponentTypes == {"Scheduler", "External"}
PermissionSets == {{}, {"Schedule"}, {"Admin"}}
MessageTypes == {"Request", "Response", "SystemEvent"}
BusPayloads == {<< >>, << 7, 9 >>}
MessageAges == {0, 61}

BusOk(message) == [ok |-> TRUE, err |-> "", message |-> message]
BusErr(err) == [ok |-> FALSE, err |-> err, message |-> None]

\* validate_permissions: every requested permission is allowed for the type
validate_permissions(permissions, component_type) ==
    LET allowed == IF component_type = "Scheduler"
                   THEN {"ReadPods", "WritePods", "ReadNodes", "Schedule"}
                   ELSE {}
    IN  permissions \subseteq allowed

validate_component_registration(id, component_type, permissions) ==
    /\ id \notin DOMAIN blocked_components
    /\ validate_permissions(permissions, component_type)

\* CryptoContext::generate_component_keys: a key pair and no shared secret
generate_component_keys(keys, id) ==
    MapInsert(keys, id, [public_key |-> 0, private_key |-> 0,
                         shared_secrets |-> EmptyMap])

\* CryptoContext::get_shared_secret
get_shared_secret(keys, from, to) ==
    IF from \in DOMAIN keys /\ to \in DOMAIN keys[from].shared_secrets
    THEN Some(keys[from].shared_secrets[to])
    ELSE None

\* CryptoContext::encrypt / decrypt return the bytes they are given
encrypt(data, key) == data
decrypt(data, key) == data

\* CryptoContext::sign_message: 64 zero bytes; verify_signature: true
sign_message(message, id) == [i \in 1 .. 64 |-> 0]
verify_signature(message, id) == TRUE

validate_message(comps, message) ==
    IF Len(message.payload) > MaxMessageSize THEN "MessageTooLarge"
    ELSE IF message.age > MaxMessageAge THEN "MessageTooOld"
    ELSE IF message.from \notin comps \/ message.to \notin comps
         THEN "ComponentNotFound"
    ELSE ""

\* check_security_policies: TRUE when the sender may send this type
check_security_policies(message) ==
    LET trust_level == IF message.from \in DOMAIN trusted_components
                       THEN trusted_components[message.from] ELSE "Untrusted"
    IN  /\ message.from \notin DOMAIN blocked_components
        /\ CASE trust_level = "Untrusted" ->
                    message.message_type \in {"Request", "Heartbeat"}
             [] trust_level = "Limited" -> message.message_type # "SystemEvent"
             [] OTHER -> TRUE

encrypt_message(keys, message) ==
    LET shared_secret == get_shared_secret(keys, message.from, message.to)
    IN  IF shared_secret = None THEN BusErr("CryptographicError")
        ELSE BusOk(Some([message EXCEPT
                !.payload = encrypt(message.payload, Unwrap(shared_secret)),
                !.signature = IF require_signatures
                              THEN sign_message(message, message.from) ELSE @]))

decrypt_message(keys, message) ==
    IF require_signatures /\ message.signature # << >>
       /\ ~verify_signature(message, message.from)
    THEN BusErr("InvalidSignature")
    ELSE LET shared_secret == get_shared_secret(keys, message.from, message.to)
         IN  IF shared_secret = None THEN BusErr("CryptographicError")
             ELSE BusOk(Some([message EXCEPT
                     !.payload = decrypt(message.payload, Unwrap(shared_secret))]))

\* route_message: append to the recipient's incoming queue
route_message(chans, message) ==
    IF message.to \in DOMAIN chans
    THEN [ok |-> TRUE, err |-> "",
          channels |-> [chans EXCEPT ![message.to] = Append(@, message)]]
    ELSE [ok |-> FALSE, err |-> "ComponentNotFound", channels |-> chans]

\* send_message: its Result and the queues it leaves
send_message(comps, keys, chans, message) ==
    LET invalid == validate_message(comps, message)
        encrypted == IF require_encryption THEN encrypt_message(keys, message)
                     ELSE BusOk(Some(message))
    IN  IF invalid # "" THEN [ok |-> FALSE, err |-> invalid, channels |-> chans]
        ELSE IF ~check_security_policies(message)
             THEN [ok |-> FALSE, err |-> "SecurityViolation", channels |-> chans]
        ELSE IF ~encrypted.ok
             THEN [ok |-> FALSE, err |-> encrypted.err, channels |-> chans]
        ELSE route_message(chans, Unwrap(encrypted.message))

\* receive_message: its Result and the queues it leaves
receive_message(keys, chans, id) ==
    IF id \in DOMAIN chans /\ chans[id] # << >>
    THEN LET message == Head(chans[id])
             rest == [chans EXCEPT ![id] = Tail(@)]
             decrypted == IF require_encryption THEN decrypt_message(keys, message)
                          ELSE BusOk(Some(message))
         IN  [ok |-> decrypted.ok, err |-> decrypted.err,
              message |-> decrypted.message, channels |-> rest]
    ELSE [ok |-> TRUE, err |-> "", message |-> None, channels |-> chans]

BusLast(op, ok, err, message, registered) ==
    [op |-> op, ok |-> ok, err |-> err, message |-> message,
     registered |-> registered]

notBus == << storeVars, now, ctrlVars, caller, schedVars, apiVars, sched_worker >>

\* register_component
RegisterComponent(id, component_type, permissions) ==
    /\ IF validate_component_registration(id, component_type, permissions)
       THEN /\ component_keys' = generate_component_keys(component_keys, id)
            /\ channels' = MapInsert(channels, id, << >>)
            /\ components' = components \cup {id}
            /\ bus_last' = BusLast("register", TRUE, "", None, TRUE)
       ELSE /\ bus_last' = BusLast("register", FALSE, "RegistrationFailed", None, FALSE)
            /\ UNCHANGED << components, component_keys, channels >>
    /\ UNCHANGED notBus

\* deregister_component
DeregisterComponent(id) ==
    /\ components' = components \ {id}
    /\ channels' = [x \in (DOMAIN channels) \ {id} |-> channels[x]]
    /\ component_keys' = [x \in (DOMAIN component_keys) \ {id} |-> component_keys[x]]
    /\ bus_last' = BusLast("deregister", TRUE, "", None, id \in components)
    /\ UNCHANGED notBus

\* send_message(message)
SendMessage(from, to, message_type, payload, age) ==
    /\ LET message == [from |-> from, to |-> to, message_type |-> message_type,
                       payload |-> payload, signature |-> << >>, age |-> age]
           sent == send_message(components, component_keys, channels, message)
       IN  /\ channels' = sent.channels
           /\ bus_last' = BusLast("send", sent.ok, sent.err, Some(message),
                                  from \in components /\ to \in components)
    /\ UNCHANGED << components, component_keys, notBus >>

\* receive_message(id)
ReceiveMessage(id) ==
    /\ LET received == receive_message(component_keys, channels, id)
       IN  /\ channels' = received.channels
           /\ bus_last' = BusLast("receive", received.ok, received.err,
                                  received.message, id \in components)
    /\ UNCHANGED << components, component_keys, notBus >>

\* No request served yet, no schedule_pod call in flight
OuterInit ==
    /\ sched_worker = [w \in SchedWorkers |-> SchedIdle]
    /\ response_cache = EmptyMap
    /\ api_last = [method |-> "none", rt |-> None, key |-> None, status |-> 0,
                   body |-> << >>, hit |-> FALSE]
    /\ components = {}
    /\ component_keys = EmptyMap
    /\ channels = EmptyMap
    /\ bus_last = BusLast("none", TRUE, "", None, FALSE)

(***************************************************************************)
(* Specifications                                                          *)
(***************************************************************************)
CtrlNext ==
    \/ \E c \in ControllerNames : RegisterController(c)
    \/ \E ev \in InputEvents : QueueEvent(ev)
    \/ \E c \in ControllerNames, key \in EventKeys : TriggerReconciliation(c, key)
    \/ \E w \in Workers : WorkerDequeue(w)
    \/ \E w \in Workers : BeginProcess(w)
    \/ \E w \in Workers, o \in Outcomes : EndReconcile(w, o)
    \/ \E task \in requeue_tasks : RequeueWake(task)
    \/ Tick

\* The store under its callers, for every configured threshold
Init ==
    /\ \E th \in Thresholds : StoreInit(th)
    /\ CtrlInit /\ CallerInit /\ SchedInit /\ OuterInit /\ now = 0

Spec == Init /\ [][StoreNext]_vars

\* The store under callers that create labelled resources and list them
ListMetas ==
    { [namespace |-> Some("ns1"), labels |-> [x \in {"app"} |-> "a"]],
      [namespace |-> Some("ns1"), labels |-> [x \in {"app"} |-> "b"]],
      [namespace |-> Some("ns1"),
       labels |-> [x \in {"app", "env"} |-> IF x = "app" THEN "a" ELSE "prod"]],
      [namespace |-> Some("ns2"), labels |-> [x \in {"app"} |-> "a"]] }

ListSelectors ==
    { << "app", "=", "a" >>,
      << "app", "=", "a", ",", "env", "=", "prod" >> }

ListOptions ==
    { QueryOptions(ns, sel, limit) :
        ns \in {None, Some("ns1")},
        sel \in {None} \cup {Some(x) : x \in ListSelectors},
        limit \in {None, Some(1)} }

\* Every order in which some of the keys can be visited
ListOrders == UNION {KeyOrders([k \in ks |-> TRUE]) : ks \in SUBSET Keys}

ListNext ==
    \E rt \in StoreKinds :
        \/ \E key \in Keys, data \in Payloads, metadata \in ListMetas :
               CreateObject(rt, key, data, metadata)
        \/ \E options \in ListOptions, order \in ListOrders :
               ListObjects(rt, options, order)

SpecList == Init /\ [][ListNext]_vars

\* The store under callers that create, read and delete one payload
DeletePayload == << 1, 2, 3 >>

DeleteNext ==
    \E rt \in StoreKinds, key \in Keys :
        \/ \E metadata \in Metas : CreateObject(rt, key, DeletePayload, metadata)
        \/ GetObject(rt, key)
        \/ DeleteObject(rt, key)

SpecDelete == Init /\ [][DeleteNext]_vars

\* The controller manager over a fresh store
InitCtrl == StoreInit(16) /\ CtrlInit /\ CallerInit /\ SchedInit /\ OuterInit /\ now = 0

SpecCtrl == InitCtrl /\ [][CtrlNext]_vars

\* The event queue alone: its producers, the clock, and workers that take
\* events from it
QueueNext ==
    \/ \E c \in ControllerNames : RegisterController(c)
    \/ \E ev \in InputEvents : QueueEvent(ev)
    \/ \E c \in ControllerNames, key \in EventKeys : TriggerReconciliation(c, key)
    \/ \E w \in Workers : WorkerDequeue(w)
    \/ Tick

SpecQueue == InitCtrl /\ [][QueueNext]_vars

\* The event workers on a queue that trigger_reconciliation("a"),
\* trigger_reconciliation("b") and a Low pods event have filled at instant 0
QuotaEvents ==
    << Event("manual", "a", "PeriodicSync", "High"),
       Event("manual", "b", "PeriodicSync", "High"),
       Event("pods", "a", "Update", "Low") >>

RECURSIVE QueueAll(_, _, _)
QueueAll(q, evs, t) ==
    IF evs = << >> THEN q ELSE QueueAll(queue_event(q, Head(evs), t).q, Tail(evs), t)

InitQuota ==
    /\ StoreInit(16) /\ CallerInit /\ SchedInit /\ OuterInit /\ now = 0
    /\ controllers = ControllerNames
    /\ event_queue = QueueAll(NewEventQueue, QuotaEvents, 0)
    /\ active = EmptyMap
    /\ history = << >>
    /\ requeue_tasks = {}
    /\ ctl_metrics = [total_events |-> 0, queue_depth |-> Len(QuotaEvents),
                      active_reconciliations |-> 0, failed_reconciliations |-> 0]
    /\ shutdown = FALSE
    /\ worker = [w \in Workers |-> [pc |-> "idle", event |-> None, controller |-> None]]
    /\ listener = "select"
    /\ enq_count = Len(QuotaEvents)
    /\ last_queued = [k \in {DedupKey(QuotaEvents[i]) : i \in 1 .. Len(QuotaEvents)} |-> 0]
    /\ last_enq = [key |-> DedupKey(QuotaEvents[Len(QuotaEvents)]), at |-> 0,
                   queued |-> TRUE]
    /\ streak = [w \in Workers |-> 0]
    /\ armed = {}

QuotaNext ==
    \/ \E w \in Workers : WorkerDequeue(w)
    \/ \E w \in Workers : BeginProcess(w)
    \/ \E w \in Workers, outcome \in Outcomes : EndReconcile(w, outcome)
    \/ \E task \in requeue_tasks : RequeueWake(task)
    \/ Tick

SpecQuota == InitQuota /\ [][QuotaNext]_vars

\* The event workers of a manager whose history already holds HistoryLimit
\* records (HistoryLimit successful reconciliations of manual/a), on the
\* queue of QuotaEvents
FullHistory ==
    [i \in 1 .. HistoryLimit |->
        [resource_key |-> "a", result |-> "Success", retry_count |-> 0]]

InitHistory ==
    /\ StoreInit(16) /\ CallerInit /\ SchedInit /\ OuterInit /\ now = 0
    /\ controllers = ControllerNames
    /\ event_queue = QueueAll(NewEventQueue, QuotaEvents, 0)
    /\ active = EmptyMap
    /\ history = FullHistory
    /\ requeue_tasks = {}
    /\ ctl_metrics = [total_events |-> HistoryLimit, queue_depth |-> Len(QuotaEvents),
                      active_reconciliations |-> 0, failed_reconciliations |-> 0]
    /\ shutdown = FALSE
    /\ worker = [w \in Workers |-> [pc |-> "idle", event |-> None, controller |-> None]]
    /\ listener = "select"
    /\ enq_count = Len(QuotaEvents)
    /\ last_queued = [k \in {DedupKey(QuotaEvents[i]) : i \in 1 .. Len(QuotaEvents)} |-> 0]
    /\ last_enq = [key |-> DedupKey(QuotaEvents[Len(QuotaEvents)]), at |-> 0,
                   queued |-> TRUE]
    /\ streak = [w \in Workers |-> 0]
    /\ armed = {}

SpecHistory == InitHistory /\ [][QuotaNext]_vars

\* A started manager that is stopped while its event workers drain the
\* queue of QuotaEvents.  The runtime keeps polling every spawned worker
\* task and a reconcile call returns, hence the weak fairness of the
\* worker's steps; stop() itself may be called at any time or never.
StopNext ==
    \/ Stop
    \/ \E w \in Workers : WorkerStop(w)
    \/ \E w \in Workers : WorkerDequeue(w)
    \/ \E w \in Workers : BeginProcess(w)
    \/ \E w \in Workers, outcome \in Outcomes : EndReconcile(w, outcome)

SpecStop ==
    /\ InitQuota
    /\ [][StopNext]_vars
    /\ \A w \in Workers :
          /\ WF_vars(WorkerStop(w))
          /\ WF_vars(WorkerDequeue(w))
          /\ WF_vars(BeginProcess(w))
          /\ WF_vars(\E outcome \in Outcomes : EndReconcile(w, outcome))

\* The API server in front of a fresh store: clients sending requests for
\* the pods "a" and "b"
ApiKind == "pods"
ApiBodies == {<< 1, 2, 3 >>, << 7, 8, 9 >>}
ApiCacheKeys == {generate_cache_key(method, ApiKind, key) :
                    method \in ApiMethods, key \in Keys}

ApiNext ==
    \E method \in ApiMethods, key \in Keys, body \in ApiBodies,
       allowed \in BOOLEAN, victim \in ApiCacheKeys :
        HandleRequest(method, ApiKind, key, body, allowed, victim)

SpecApi == Init /\ [][ApiNext]_vars

\* Two concurrent schedule_pod calls over a store that receives node
\* objects; the pods ask for more than half of a node's CPU
ConcPods ==
    { [id |-> "p4", resources |-> Resources(2500, 1024, 1024), node_affinity |-> None,
       tolerations |-> << >>, priority |-> 0],
      [id |-> "p5", resources |-> Resources(2500, 1024, 1024), node_affinity |-> None,
       tolerations |-> << >>, priority |-> 1] }

SchedVictims == {None} \cup {generate_pod_signature(pod) : pod \in ConcPods}

SchedConcNext ==
    \/ \E key \in NodeKeys : CreateObject("nodes", key, << 1, 2, 3 >>,
                                       [namespace |-> None, labels |-> NoLabels])
    \/ RefreshNodeCache
    \/ \E w \in SchedWorkers, pod \in ConcPods : ScheduleFind(w, pod)
    \/ \E w \in SchedWorkers, victim \in SchedVictims : ScheduleAllocate(w, victim)
    \/ TtlTick

SpecSchedConc == InitCtrl /\ [][SchedConcNext]_vars

\* A started manager with the repository's ReplicaSetController: events of
\* watched resources, trigger_reconciliation and the event workers
TriggerNext ==
    \/ \E c \in RepoControllers : RegisterController(c)
    \/ \E ev \in InputEvents : QueueEvent(ev)
    \/ \E c \in RepoControllers, key \in EventKeys : TriggerReconciliation(c, key)
    \/ \E w \in Workers : WorkerDequeue(w)
    \/ \E w \in Workers : BeginProcess(w)
    \/ \E w \in Workers, outcome \in Outcomes : EndReconcile(w, outcome)
    \/ Tick

SpecTrigger == InitCtrl /\ [][TriggerNext]_vars

\* Components registering with the bus, leaving it and exchanging messages
BusNext ==
    \/ \E id \in ComponentIds, component_type \in ComponentTypes,
          permissions \in PermissionSets :
            RegisterComponent(id, component_type, permissions)
    \/ \E id \in ComponentIds : DeregisterComponent(id)
    \/ \E from \in ComponentIds, to \in ComponentIds, message_type \in MessageTypes,
          payload \in BusPayloads, age \in MessageAges :
            SendMessage(from, to, message_type, payload, age)
    \/ \E id \in ComponentIds : ReceiveMessage(id)

SpecBus == InitCtrl /\ [][BusNext]_vars

\* Two callers updating the same stored object, each expecting the version
\* its creation reported (assigned[1])
InitConc ==
    /\ \E th \in Thresholds, data \in Payloads, metadata \in Metas :
           LET r == create_object(NewStore(th), ConcKind, ConcKey, data, metadata)
           IN  /\ store = r.s
               /\ last = Call("create", ConcKind, ConcKey, Some(data), None, r)
               /\ assigned = << r.data >>
    /\ CtrlInit /\ CallerInit /\ SchedInit /\ OuterInit /\ now = 0

ConcNext ==
    \/ \E c \in Callers : UpdateCheck(c, assigned[1])
    \/ \E c \in Callers : UpdateDelete(c)
    \/ \E c \in Callers, data \in Payloads, metadata \in Metas :
           UpdateCreate(c, data, metadata)

SpecConc == InitConc /\ [][ConcNext]_vars

\* The store under two callers whose verbs interleave step by step
InitSteps ==
    /\ StoreInit(16)
    /\ CtrlInit /\ StepInit /\ SchedInit /\ OuterInit /\ now = 0

StepsNext ==
    \E c \in Callers :
        \/ \E key \in Keys : CreateFetchAdd(c, key)
        \/ CreateInsert(c)
        \/ CreateIndex(c)
        \/ \E key \in Keys : DeleteRemove(c, key)
        \/ DeleteIndex(c)
        \/ DeleteBump(c)
        \/ ListBegin(c)
        \/ \E order \in ListOrders : ListFilter(c, order)
        \/ ListLoad(c)

SpecSteps == InitSteps /\ [][StepsNext]_vars

\* The scheduler over a store that receives node objects
SchedNext ==
    \/ \E key \in NodeKeys : CreateObject("nodes", key, << 1, 2, 3 >>,
                                       [namespace |-> None, labels |-> NoLabels])
    \/ RefreshNodeCache
    \/ \E n \in NodeNames : \E info \in NodeInfos(n) : UpdateNode(n, info)
    \/ \E n \in NodeNames : RemoveNode(n)
    \/ \E pod \in Pods : SchedulePod(pod)
    \/ TtlTick

SpecSched == InitCtrl /\ [][SchedNext]_vars

\* The store under mutation next to a started controller manager: the callers
\* of the store verbs, register_controller, trigger_reconciliation and the
\* store listener task.  The runtime keeps running the listener task, hence
\* the weak fairness of its two steps; callers may stop calling at any time.
WatchKind == "pods"
WatchPayload == << 1, 2, 3 >>
WatchMeta == [namespace |-> Some("ns2"), labels |-> NoLabels]

WatchNext ==
    \/ \E key \in Keys : CreateObject(WatchKind, key, WatchPayload, WatchMeta)
    \/ \E key \in Keys : UpdateObject(WatchKind, key, WatchPayload, WatchMeta, None)
    \/ \E key \in Keys : DeleteObject(WatchKind, key)
    \/ \E c \in ControllerNames : RegisterController(c)
    \/ \E c \in ControllerNames, key \in EventKeys : TriggerReconciliation(c, key)
    \/ ListenerWake
    \/ ListenerPoll

SpecWatch ==
    /\ InitCtrl
    /\ [][WatchNext]_vars
    /\ WF_vars(ListenerWake)
    /\ WF_vars(ListenerPoll)

(***************************************************************************)
(* Store claims                                                            *)
(***************************************************************************)
AllKinds == BuiltinKinds \cup CustomKinds

Present(s, rt, key) == key \in DOMAIN TableOf(s, rt)

\* What a failed verb must leave alone: tables, indexes and the revision counter
Durable(s) ==
    << s.stores, s.custom_resources, s.namespace_index, s.label_index, s.revision >>

\* C1: update_object with expected_version = Some(e), e different from the
\* version stored for the key, returns VersionMismatch and leaves the payload,
\* metadata, record version, indexes and global revision unchanged.
C1_VersionMismatchRejected ==
    [][ ( /\ last'.op = "update"
          /\ last'.expected # None
          /\ Present(store, last'.rt, last'.key)
          /\ TableOf(store, last'.rt)[last'.key].resource_version
                 # Unwrap(last'.expected) )
        => ( /\ last'.ret.tag = "Err"
             /\ last'.ret.value = "VersionMismatch"
             /\ Durable(store') = Durable(store) ) ]_vars

\* C2: create_object on a key already present in the kind's table fails and
\* leaves the existing record and the global revision unchanged.
C2_CreateConflictRejected ==
    [][ ( /\ last'.op = "create"
          /\ Present(store, last'.rt, last'.key) )
        => ( /\ TableOf(store', last'.rt)[last'.key] = TableOf(store, last'.rt)[last'.key]
             /\ store'.revision = store.revision ) ]_vars

\* C5: the versions reported by successive successful create/update/delete
\* calls are strictly increasing in call order, and no two live records hold
\* the same resource_version.
C5_VersionsStrictlyIncreasing ==
    /\ \A i \in 1 .. Len(assigned) - 1 : assigned[i] < assigned[i + 1]
    /\ \A rt1 \in AllKinds, rt2 \in AllKinds :
         \A k1 \in DOMAIN TableOf(store, rt1), k2 \in DOMAIN TableOf(store, rt2) :
            << rt1, k1 >> # << rt2, k2 >>
            => TableOf(store, rt1)[k1].resource_version
                   # TableOf(store, rt2)[k2].resource_version

IndexEntry(index, e) == IF e \in DOMAIN index THEN index[e] ELSE << >>

Occurrences(seq, key) == Cardinality({i \in 1 .. Len(seq) : seq[i] = key})

Namespaces == {Unwrap(m.namespace) : m \in {x \in Metas : x.namespace # None}}
Selectors ==
    UNION {{Selector(k, m.labels[k]) : k \in DOMAIN m.labels} : m \in Metas}

LiveInNamespace(s, rt, ns) ==
    {key \in DOMAIN TableOf(s, rt) : TableOf(s, rt)[key].metadata.namespace = Some(ns)}

LiveWithLabel(s, rt, sel) ==
    {key \in DOMAIN TableOf(s, rt) :
        LET l == TableOf(s, rt)[key].metadata.labels
        IN  \E k \in DOMAIN l : Selector(k, l[k]) = sel}

\* C7: the namespace index entry for N holds exactly the live keys in
\* namespace N, and every label index entry exactly the live keys carrying the
\* label: nothing missing, stale or duplicated.  IndexStore keeps one entry per
\* namespace and per label for all kinds together, so the entry is compared
\* with the live resources of every kind: a key occurs in it once per kind
\* that holds a live resource of that key there.
C7_IndexCoherence ==
    \A key \in Keys :
        /\ \A ns \in Namespaces :
             Occurrences(IndexEntry(store.namespace_index, ns), key)
                 = Cardinality({rt \in AllKinds : key \in LiveInNamespace(store, rt, ns)})
        /\ \A sel \in Selectors :
             Occurrences(IndexEntry(store.label_index, sel), key)
                 = Cardinality({rt \in AllKinds : key \in LiveWithLabel(store, rt, sel)})

\* C8: create_object(kind, key, p, m) directly followed by get_object(kind, key)
\* returns Some(p), for every payload and every compression threshold.
C8_CreateGetRoundTrip ==
    [][ ( /\ last.op = "create"
          /\ last'.op = "get"
          /\ last'.rt = last.rt
          /\ last'.key = last.key )
        => last'.ret = last.data ]_vars



(***************************************************************************)
(* Controller manager claims                                               *)
(***************************************************************************)
InReconcile(w) == worker[w].pc = "reconcile"

\* C3: at every instant, for every (kind, key), at most one worker is inside
\* Controller::reconcile for it.
C3_AtMostOneActivePerKey ==
    \A w1 \in Workers, w2 \in Workers :
        ( /\ w1 # w2
          /\ InReconcile(w1)
          /\ InReconcile(w2) )
        => << worker[w1].event.resource_type, worker[w1].event.resource_key >>
               # << worker[w2].event.resource_type, worker[w2].event.resource_key >>

Queued(q, ev) == \E i \in 1 .. Len(q[Band(ev.priority)]) : q[Band(ev.priority)][i] = ev

\* C9: an event whose reconcile returned Retry below max_retries is back in
\* the queue of its priority, with retry_count incremented by one, when the
\* backoff delay has passed (when the task schedule_requeue spawned ends).
C9_RetryRequeuesEvent ==
    [][ \A task \in requeue_tasks :
           (task.cause = "retry" /\ task \notin requeue_tasks')
           => Queued(event_queue', task.event) ]_vars

\* C10: two queue_event calls for the same (resource_type, resource_key) made
\* within dedup_window of each other add at most one event: a call that
\* queues its event comes dedup_window or more after the last call that
\* queued an event of the same key.
C10_DedupWithinWindow ==
    [][ ( /\ enq_count' = enq_count + 1
          /\ last_enq'.queued
          /\ last_enq'.key \in DOMAIN last_queued )
        => last_enq'.at - last_queued[last_enq'.key] >= DedupWindow ]_vars

\* C10 witness: a call made within the window of a queued call of the same key
\* was dropped
C10_Witness ==
    /\ enq_count >= 2
    /\ ~last_enq.queued
    /\ last_enq.key \in DOMAIN last_queued
    /\ last_enq.at - last_queued[last_enq.key] < DedupWindow
    /\ QueueDepth(event_queue) + Cardinality({w \in Workers : worker[w].event # None}) <= 1


(***************************************************************************)
(* Concurrent update claims                                                *)
(***************************************************************************)
Returned(c) == caller[c].pc = "done"
Succeeded(c) ==
    /\ Returned(c)
    /\ Unwrap(caller[c].ret).tag = "Ok"
    /\ Unwrap(caller[c].ret).value > Unwrap(caller[c].expected)
Mismatched(c) ==
    /\ Returned(c)
    /\ Unwrap(caller[c].ret).tag = "Err"
    /\ Unwrap(caller[c].ret).value = "VersionMismatch"

\* C6: when two callers concurrently call update_object with expected_version
\* = Some(V) on a key stored at version V, once both have returned exactly one
\* has succeeded with a version above V and the other has VersionMismatch.
C6_ExactlyOneUpdateWins ==
    (\A c \in Callers : Returned(c) /\ caller[c].expected = Some(assigned[1]))
    => \E c \in Callers :
           /\ Succeeded(c)
           /\ \A d \in Callers \ {c} : Mismatched(d)

(***************************************************************************)
(* Scheduler claims                                                        *)
(***************************************************************************)
\* The step is a schedule_pod call that returned Some(node) from a fresh decision
FreshPlacement ==
    /\ sched_metrics'.total_schedules = sched_metrics.total_schedules + 1
    /\ ~sched_last'.cached
    /\ sched_last'.node # None

\* C4: a node returned by a fresh decision of schedule_pod had, in the node
\* cache that decision examined, available cpu, memory and storage at or above
\* the pod's requests, ready = true, and neither memory nor disk pressure.
C4_FreshDecisionFeasible ==
    [][ FreshPlacement =>
          LET name == Unwrap(sched_last'.node)
              req == Unwrap(sched_last'.pod).resources
          IN  /\ name \in DOMAIN node_cache.nodes
              /\ node_cache.nodes[name].available_cpu >= req.cpu_request
              /\ node_cache.nodes[name].available_memory >= req.memory_request
              /\ node_cache.nodes[name].available_storage >= req.storage_request
              /\ node_cache.nodes[name].conditions.ready
              /\ ~node_cache.nodes[name].conditions.memory_pressure
              /\ ~node_cache.nodes[name].conditions.disk_pressure ]_vars

\* C4 witness: the 1500m / 1 GiB pod was placed by a fresh decision, and the
\* node is left with what the placement did not take
C4_Witness ==
    /\ sched_last.pod # None
    /\ Unwrap(sched_last.pod).id = "p1"
    /\ ~sched_last.cached
    /\ sched_last.node = Some("mock-node")
    /\ "mock-node" \in DOMAIN node_cache.nodes
    /\ node_cache.nodes["mock-node"].available_cpu = 2500
    /\ node_cache.nodes["mock-node"].pod_count = 1


(***************************************************************************)
(* Event queue claims                                                      *)
(***************************************************************************)
Bands == << "critical", "high", "normal", "low" >>

\* Worker w takes event ev in this step
Takes(w, ev) ==
    /\ worker[w].pc = "idle"
    /\ worker'[w].pc = "process"
    /\ worker'[w].event = ev

\* C11: get_next_event returns the head of the highest-priority non-empty
\* band, and a band is served in the order its events were enqueued: in every
\* step a band either stays as it is, grows at its tail, or loses its head to
\* a worker while every band above it is empty.
C11_StrictPriorityFifo ==
    [][ \A i \in 1 .. 4 :
          LET old == event_queue[Bands[i]]
              new == event_queue'[Bands[i]]
          IN  \/ new = old
              \/ Len(new) = Len(old) + 1 /\ SubSeq(new, 1, Len(old)) = old
              \/ /\ old # << >>
                 /\ new = Tail(old)
                 /\ \A j \in 1 .. i - 1 : event_queue[Bands[j]] = << >>
                 /\ \E w \in Workers : Takes(w, Head(old)) ]_vars

\* C11 witness: a worker took the Critical event and left the lower-priority
\* event, enqueued as well, in its band
C11_Witness ==
    /\ enq_count = 2
    /\ \E w \in Workers :
          /\ worker[w].pc = "process"
          /\ worker[w].event.priority = "Critical"
    /\ event_queue.critical = << >>
    /\ Len(event_queue.normal) + Len(event_queue.low) + Len(event_queue.high) = 1


(***************************************************************************)
(* Placement claims                                                        *)
(***************************************************************************)
Tolerated(pod, taint) ==
    \E j \in 1 .. Len(pod.tolerations) :
        toleration_matches_taint(pod.tolerations[j], taint)

\* The pod's tolerations cover every NoSchedule and NoExecute taint of the node
CoversTaints(node, pod) ==
    \A i \in 1 .. Len(node.taints) :
        node.taints[i].effect \in {"NoSchedule", "NoExecute"}
        => Tolerated(pod, node.taints[i])

RequiredAffinityMatches(node, pod) ==
    \/ pod.node_affinity = None
    \/ Unwrap(pod.node_affinity).required = None
    \/ node_matches_selector(node, Unwrap(Unwrap(pod.node_affinity).required))

\* The feasibility predicates of a placement: resources, conditions,
\* tolerations, required node affinity
Feasible(node, pod) ==
    /\ node.available_cpu >= pod.resources.cpu_request
    /\ node.available_memory >= pod.resources.memory_request
    /\ node.available_storage >= pod.resources.storage_request
    /\ node.conditions.ready
    /\ ~node.conditions.memory_pressure
    /\ ~node.conditions.disk_pressure
    /\ CoversTaints(node, pod)
    /\ RequiredAffinityMatches(node, pod)

\* The step is a schedule_pod call
Scheduled == sched_metrics'.total_schedules = sched_metrics.total_schedules + 1

\* the pod of that call and the node it returned
PlacedPod == Unwrap(sched_last'.pod)
PlacedNode == Unwrap(sched_last'.node)

\* C12: schedule_pod returns a cached decision only if the decision's TTL has
\* not elapsed and the cached node, in the current node cache, satisfies every
\* feasibility predicate for the pod.
C12_CachedDecisionStillFeasible ==
    [][ (Scheduled /\ sched_last'.cached) =>
          LET key == generate_pod_signature(PlacedPod)
          IN  /\ key \in DOMAIN decision_cache
              /\ now - decision_cache[key].timestamp <= DecisionCacheTtl
              /\ PlacedNode \in DOMAIN node_cache.nodes
              /\ Feasible(node_cache.nodes[PlacedNode], PlacedPod) ]_vars


\* C13: a node is returned by schedule_pod only if the pod's tolerations cover
\* every taint of the node whose effect is NoSchedule or NoExecute.
C13_TaintsTolerated ==
    [][ (Scheduled /\ sched_last'.node # None) =>
          /\ PlacedNode \in DOMAIN node_cache.nodes
          /\ CoversTaints(node_cache.nodes[PlacedNode], PlacedPod) ]_vars


\* C14: for a pod that declares a required node affinity, schedule_pod returns
\* a node only if the node's labels match the required selector (so a pod
\* whose required affinity matches no cached node gets no node).
C14_RequiredAffinityHonoured ==
    [][ (Scheduled /\ sched_last'.node # None) =>
          /\ PlacedNode \in DOMAIN node_cache.nodes
          /\ RequiredAffinityMatches(node_cache.nodes[PlacedNode], PlacedPod) ]_vars


\* Node names in ascending (lexicographic) order
NamesAscending == << "alpha", "mock-node" >>
NameRank(name) == CHOOSE i \in 1 .. Len(NamesAscending) : NamesAscending[i] = name

\* The cached nodes that pass find_best_node's filters for the pod
Candidates(nc, pod) == {n \in DOMAIN nc.nodes : PassesFilters(nc.nodes[n], pod)}

\* Two candidates share the best score of the cache for the pod
TiedBest(nc, pod, n1, n2) ==
    /\ n1 \in Candidates(nc, pod)
    /\ n2 \in Candidates(nc, pod)
    /\ n1 # n2
    /\ calculate_node_score(nc.nodes[n1], pod) = calculate_node_score(nc.nodes[n2], pod)
    /\ \A n \in Candidates(nc, pod) :
          calculate_node_score(nc.nodes[n], pod) <= calculate_node_score(nc.nodes[n1], pod)

\* C15: when two feasible nodes obtain identical scores for a pod and no node
\* scores higher, a fresh decision that returns a node returns the one with the
\* smaller name.
C15_TieBreakByName ==
    [][ (Scheduled /\ ~sched_last'.cached /\ sched_last'.node # None) =>
          \A n1 \in NodeNames, n2 \in NodeNames :
              (TiedBest(node_cache, PlacedPod, n1, n2) /\ NameRank(n1) < NameRank(n2))
              => sched_last'.node = Some(n1) ]_vars


\* C16: schedule_pod returns no node only if no node of the node cache is
\* feasible for the pod, however the nodes entered the cache.
C16_UnschedulableOnlyIfNoneFeasible ==
    [][ (Scheduled /\ sched_last'.node = None) =>
          \A n \in DOMAIN node_cache.nodes :
              ~Feasible(node_cache.nodes[n], PlacedPod) ]_vars


\* C17: every schedule_pod call that returns a node, from a fresh decision or
\* from the decision cache, takes the pod's cpu, memory and storage requests
\* from that node's availability and adds one to its pod count.
C17_PlacementAllocates ==
    [][ (Scheduled /\ sched_last'.node # None) =>
          /\ PlacedNode \in DOMAIN node_cache.nodes
          /\ PlacedNode \in DOMAIN node_cache'.nodes
          /\ LET before == node_cache.nodes[PlacedNode]
                 after == node_cache'.nodes[PlacedNode]
                 req == PlacedPod.resources
             IN  /\ after.available_cpu = before.available_cpu - req.cpu_request
                 /\ after.available_memory = before.available_memory - req.memory_request
                 /\ after.available_storage = before.available_storage - req.storage_request
                 /\ after.pod_count = before.pod_count + 1 ]_vars


\* The last store call was a successful mutation of key k
Mutated(k) ==
    CASE last.op = "create" -> last.key = k
      [] last.op = "update" -> last.key = k /\ last.ret.tag = "Ok"
      [] last.op = "delete" -> last.key = k /\ last.ret
      [] OTHER -> FALSE

\* queue_event has queued a reconciliation event for resource key k
EnqueuedFor(k) == \E d \in DOMAIN last_queued : d[3] = k

\* C18: every successful store mutation of a key leads to a reconciliation
\* event for that key being queued.
C18_MutationsReachQueue ==
    \A k \in Keys : Mutated(k) ~> EnqueuedFor(k)


\* C19: update_object on a key that is absent returns the not-found error and
\* does not create the resource, with and without an expected version.
C19_UpdateAbsentNotFound ==
    [][ (last'.op = "update" /\ ~Present(store, last'.rt, last'.key))
        => ( /\ last'.ret.tag = "Err"
             /\ last'.ret.value = "Object not found"
             /\ ~Present(store', last'.rt, last'.key) ) ]_vars


KeyIndexed(s, key) ==
    \/ \E e \in DOMAIN s.namespace_index : key \in Range(s.namespace_index[e])
    \/ \E e \in DOMAIN s.label_index : key \in Range(s.label_index[e])

\* C20: delete_object on a present key returns true; right after the call
\* get_object on the key returns None, no index entry contains the key, and
\* the global revision is greater than before the call.
C20_DeleteRemoves ==
    [][ (last'.op = "delete" /\ Present(store, last'.rt, last'.key))
        => ( /\ last'.ret = TRUE
             /\ get_object(store', last'.rt, last'.key).data = None
             /\ ~KeyIndexed(store', last'.key)
             /\ store'.revision > store.revision
             /\ last'.revision = store'.revision ) ]_vars

\* A labelled resource in a namespace was created and then deleted
C20_Witness ==
    /\ last.op = "delete"
    /\ last.ret = TRUE
    /\ last.revision = 3
    /\ \E sel \in Selectors : sel \in DOMAIN store.label_index
    /\ \E ns \in Namespaces : ns \in DOMAIN store.namespace_index


\* C21: delete_object on a key that is not present returns false and leaves
\* every primary table, every index and the global revision unchanged.
C21_DeleteAbsentNoEffect ==
    [][ (last'.op = "delete" /\ ~Present(store, last'.rt, last'.key))
        => ( /\ last'.ret = FALSE
             /\ Durable(store') = Durable(store)
             /\ last'.revision = store.revision ) ]_vars

\* A delete of an absent key while a labelled resource in a namespace is live
C21_Witness ==
    /\ last.op = "delete"
    /\ last.ret = FALSE
    /\ KeyIndexed(store, "a")
    /\ \E rt \in StoreKinds : Present(store, rt, "a")


\* The step is a store call that mutated the store successfully
MutatingStep ==
    CASE last'.op = "create" -> TRUE
      [] last'.op = "update" -> last'.ret.tag = "Ok"
      [] last'.op = "delete" -> last'.ret
      [] OTHER -> FALSE

\* C22: a successful create, update or delete advances the global counter by
\* exactly one version, and right after the call that version is the version
\* of the affected record and the revision get_object reports.
C22_OneVersionPerMutation ==
    [][ MutatingStep =>
          LET g == get_object(store', last'.rt, last'.key)
          IN  /\ store'.revision = store.revision + 1
              /\ last'.op # "delete" =>
                    /\ Present(store', last'.rt, last'.key)
                    /\ TableOf(store', last'.rt)[last'.key].resource_version
                           = g.revision ]_vars


\* The live resources of a kind in namespace ns whose labels map k to v
Selected(s, rt, ns, k, v) ==
    {key \in DOMAIN TableOf(s, rt) :
        LET m == TableOf(s, rt)[key].metadata
        IN  /\ m.namespace = Some(ns)
            /\ k \in DOMAIN m.labels
            /\ m.labels[k] = v}

\* C24: list_objects with namespace N and label selector "k=v" and no limit
\* returns one item per live resource of the kind in N labelled k=v and no
\* other item, and the item of a resource just created is the payload it was
\* created with.
C24_ListFiltersExactly ==
    [][ ( /\ last'.op = "list"
          /\ last'.options.limit = None
          /\ last'.options.namespace = Some("ns1")
          /\ last'.options.label_selector = Some(<< "app", "=", "a" >>) )
        => LET sel == Selected(store, last'.rt, "ns1", "app", "a")
           IN  /\ Len(last'.ret) = Cardinality(sel)
               /\ ( /\ last.op = "create"
                    /\ last.rt = last'.rt
                    /\ last.key \in sel )
                  => \E i \in 1 .. Len(last'.ret) : last'.ret[i] = Unwrap(last.data) ]_vars


\* C23: every item a list_objects call returns has a resource version not
\* greater than the revision returned with the list, under any interleaving
\* with concurrent creates and deletes.
C23_ListItemsNotNewer ==
    [][ last'.op = "list" =>
          \A v \in last'.versions : v <= last'.revision ]_vars

\* A list that returned the record of a create still in flight
C23_Witness ==
    /\ last.op = "list"
    /\ Len(last.ret) >= 1
    /\ \E c \in Callers : caller[c].pc = "index"


\* The index entries the metadata of a record names
EntriesOf(s, metadata) ==
    (IF metadata.namespace # None
     THEN {IndexEntry(s.namespace_index, Unwrap(metadata.namespace))} ELSE {})
    \cup {IndexEntry(s.label_index, Selector(k, metadata.labels[k])) :
             k \in DOMAIN metadata.labels}

\* C25: at every instant of every interleaving, a key present in a kind's
\* primary table is in the namespace and label index entries of its record,
\* and a key held by an index entry is present in a primary table.
C25_IndexInSameCriticalSection ==
    /\ \A rt \in AllKinds : \A key \in DOMAIN TableOf(store, rt) :
          \A entry \in EntriesOf(store, TableOf(store, rt)[key].metadata) :
              key \in Range(entry)
    /\ \A key \in Keys :
          KeyIndexed(store, key) => \E rt \in AllKinds : Present(store, rt, key)


\* C26: an event whose reconcile returned Requeue(after) is back in the queue
\* band of its priority, unchanged, when the delay has passed (when the task
\* schedule_requeue spawned ends).
C26_RequeueReinsertsEvent ==
    [][ \A task \in requeue_tasks :
           (task.cause = "requeue" /\ task \notin requeue_tasks')
           => Queued(event_queue', task.event) ]_vars


\* C27: the delay scheduled before the retry of an event that has already
\* been retried k times is the backoff base times 2^k, and the delay of retry
\* k + 1 is not shorter than the delay of retry k.
C27_BackoffDoubles ==
    [][ \A task \in requeue_tasks' \ requeue_tasks :
           task.cause = "retry"
           => LET k == task.event.retry_count - 1
              IN  /\ task.due - now = RetryBaseDelay * Pow2(k)
                  /\ k < MaxRetries - 1 => RetryDelay(k + 2) >= task.due - now ]_vars


\* C28: queue_event called with a Critical event always appends the event to
\* the critical queue, also within the deduplication window of an earlier
\* event of the same resource.
C28_CriticalBypassesDedup ==
    [][ \A ev \in InputEvents :
           (ev.priority = "Critical" /\ QueueEvent(ev))
           => event_queue'.critical = Append(event_queue.critical, ev) ]_vars


\* C29: a worker that has popped priority_quota consecutive events from
\* higher bands while an event of a lower band was queued looks at the lower
\* bands at its next pop: no worker passes over a queued lower-band event more
\* than priority_quota times in a row.
C29_QuotaServesLowerBands ==
    \A w \in Workers : streak[w] <= PriorityQuota


\* C30: the four priority queues never hold more than max_queue_size events
\* together: an enqueue that would exceed the limit adds nothing.
C30_QueueBounded ==
    QueueDepth(event_queue) <= MaxQueueSize

\* C31: the reconciliation history is a bounded ring: whatever the mix of
\* successful and failed outcomes, it never holds more than 1000 records.
C31_HistoryBounded ==
    Len(history) <= HistoryLimit

\* C32: once stop() has set the shutdown flag, every event worker ends its
\* loop: a worker inside process_event finishes that call first, and no
\* worker goes on taking events from the queue for ever.
C32_WorkersStopAfterShutdown ==
    shutdown ~> (\A w \in Workers : worker[w].pc = "stopped")

\* stop() has been called, one worker has ended and another is still inside
\* the reconcile call it had begun
C32_Witness ==
    /\ shutdown
    /\ \E w \in Workers : worker[w].pc = "stopped"
    /\ \E w \in Workers : worker[w].pc = "reconcile"

\* C33: a GET is never answered from a response-cache entry that a later
\* successful mutation of the resource has made stale: the answer of a GET
\* is what the store holds at that moment (404 once the resource is deleted).
C33_GetSeesMutation ==
    [][ (api_last'.method = "GET" /\ api_last'.status # 429) =>
            LET fresh == handle_get_resource(store, Unwrap(api_last'.rt),
                                             Unwrap(api_last'.key))
            IN  /\ api_last'.status = fresh.status
                /\ api_last'.body = fresh.body ]_vars

\* C34: every create_object call adds exactly one to the store's `operations`
\* counter and exactly one to its `writes` counter, whatever other calls are
\* in flight when it returns.
C34_CreateCountsOnce ==
    [][ (last' # last /\ last'.op = "create") =>
            /\ store'.metrics.operations = store.metrics.operations + 1
            /\ store'.metrics.writes = store.metrics.writes + 1 ]_vars

\* A second create_object call has returned while another caller's create is
\* between its insert and its index update
C34_Witness ==
    /\ last.op = "create"
    /\ store.metrics.writes = 2
    /\ store.metrics.operations = 2
    /\ \E c \in Callers : caller[c].pc = "index"

\* C35: whatever the interleaving of concurrent schedule_pod calls, no node
\* of the node cache has a negative available_cpu, available_memory or
\* available_storage.
C35_AvailableNeverNegative ==
    \A n \in DOMAIN node_cache.nodes :
        /\ node_cache.nodes[n].available_cpu >= 0
        /\ node_cache.nodes[n].available_memory >= 0
        /\ node_cache.nodes[n].available_storage >= 0

\* C36: when mutating verbs on one key run concurrently, the version stored
\* for the key never decreases: a writer that takes the table's write lock
\* later does not install a version smaller than the one already stored.
C36_StoredVersionNeverDecreases ==
    [][ \A key \in Keys :
            (Present(store, StepKind, key) /\ Present(store', StepKind, key)) =>
                TableOf(store', StepKind)[key].resource_version >=
                    TableOf(store, StepKind)[key].resource_version ]_vars

\* C37: sorted_nodes holds exactly the names of the nodes in the node cache,
\* in descending order of their coarse score, after every update_node,
\* remove_node and refresh of the cache.
C37_SortedNodesTracksCache ==
    LET sorted == node_cache.sorted_nodes
        nodes == node_cache.nodes
    IN  /\ Range(sorted) = DOMAIN nodes
        /\ \A i \in 1 .. Len(sorted) : \A j \in i .. Len(sorted) :
               nodes[sorted[i]].score >= nodes[sorted[j]].score

\* C38: the event trigger_reconciliation queues for a registered controller
\* is dispatched to a controller's reconcile: the worker that takes a
\* "manual" event out of the queue goes on into Controller::reconcile with it.
C38_TriggerReachesReconcile ==
    [][ \A w \in Workers :
            (/\ worker[w].pc = "process"
             /\ worker[w].event.resource_type = "manual"
             /\ worker'[w].pc # "process")
            => worker'[w].pc = "reconcile" ]_vars

\* C40: memory_usage() is the total stored size of the live objects; in
\* particular it is 0 whenever the store holds no object, whatever creates,
\* updates and deletes came before.
C40_MemoryUsageOfEmptyStore ==
    (\A rt \in AllKinds, key \in Keys : ~Present(store, rt, key))
        => store.memory_usage = 0

\* C39: with the default security policies, a Request message of admissible
\* size and age that one registered, non-blocked component sends to another
\* registered component with send_message is accepted: the call returns Ok.
C39_RequestAccepted ==
    (/\ bus_last.op = "send"
     /\ bus_last.registered
     /\ Unwrap(bus_last.message).message_type = "Request"
     /\ Unwrap(bus_last.message).from # Unwrap(bus_last.message).to
     /\ Unwrap(bus_last.message).from \notin DOMAIN blocked_components
     /\ Unwrap(bus_last.message).age <= MaxMessageAge
     /\ Len(Unwrap(bus_last.message).payload) <= MaxMessageSize)
        => bus_last.ok

====
